---- MODULE Spec2Model ----
(***************************************************************************)
(* Model of the multi-provider AI gateway of AI-Learning-Engine:           *)
(*   ai_client_factory.py   client creation and failover                   *)
(*   local_ai_client.py     Ollama adapter                                 *)
(*   google_ai_client.py    Google AI adapter                              *)
(*   open_ended_processor.py  rubric scoring with heuristic fallback       *)
(*   session_manager.py     credentials kept in the session, health check  *)
(*   app.py                 generate_quiz and its response extraction,     *)
(*                          the provider switch of main, the flashcards    *)
(*                                                                         *)
(* Texts the code builds with f-strings are sequences of string fragments, *)
(* so that "embeds" and "non-empty" are checkable: a text is empty iff all *)
(* of its fragments are "".                                                *)
(***************************************************************************)
EXTENDS Integers, Sequences, FiniteSets, TLC

VARIABLES
    \* --- the world outside the program
    tags_probe,            \* outcome of GET {base}/api/tags: "ok", "http_error", "conn_error"
    ollama_models,         \* model names the Ollama server lists
    ctor_raises,           \* providers whose client constructor raises at the moment
    exc_text,              \* str(e) of an exception raised by a constructor
    \* --- st.session_state
    ai_provider,
    selected_local_model,
    api_keys,
    \* --- app.py globals bound by get_working_client, and its frame
    client,
    provider_name,
    client_successful,
    pc,                    \* "idle", "loop", "done", "raised", "created"
    current_provider,
    idx,                   \* position of the for loop in providers
    attempts,              \* providers handed to create_client during this call, in order
    created,               \* what the last create_client call did
    \* --- a completion call on the bound client
    response,
    ncalls,
    \* --- one call of OpenEndedQuestionProcessor.score_open_ended_answer
    use_local_ai,          \* the processor's provider flags
    use_google_ai,
    question_data,
    user_answer,
    reply,                 \* what the completion call does: raises, or returns a text
    payload,               \* the scores the members of the reply's document carry
    fp_tie_up,             \* round(): which way an exact decimal tie falls in binary floating point
    sc_pc,                 \* "new", "idle", "extract", "except", "returned", "raised"
    st_bound,              \* the function-local name st is bound (line 229)
    content,
    scoring_result,
    sc_path,               \* "none", "empty", "model", "heuristic"
    n_completions,
    n_heuristic,
    \* --- one completion call on a provider adapter
    ad_pc,                 \* "idle", "returned", "raised"
    ad_adapter,            \* "LocalAIClient" or "GoogleAIClient"
    ad_messages,           \* the messages of the request
    ad_transport,          \* what the network did
    ad_sent,               \* the contents handed to generate_content
    ad_result,
    \* --- one call of SessionManager.check_provider_availability
    av_pc,                 \* "idle", "checked"
    av_provider,
    av_result,             \* the returned pair, the network calls made, whether it raised
    \* --- one call of generate_quiz, generate_open_ended_questions or generate_mixed_quiz
    qz_pc,                 \* "idle", "returned"
    qz_fn,                 \* the function called
    qz_args,               \* its arguments and the client it finds
    qz_replies,            \* what the completion calls do, in order
    qz_out,                \* the requests it made and what it returned
    \* --- one run of app.py: line 44, then main()
    mn_pc,                 \* "line44", "sidebar", "recreate", "body", "requested"
    mn_start,              \* st.session_state.ai_provider when the run began
    selected_provider,     \* what render_provider_selector returned
    mn_recreated,          \* main called get_working_client in this run
    mn_request,            \* the request of this run: the client it went to, the provider it was built for
    \* --- the flashcard session of display_flashcards
    total_cards,           \* len(flashcards)
    current_flashcard,
    flashcard_answer_visible,
    flashcard_stats,
    fc_last                \* the last operation and the card it started from

gwVars == <<tags_probe, ollama_models, ctor_raises, exc_text, ai_provider,
            selected_local_model, api_keys, client, provider_name,
            client_successful, pc, current_provider, idx, attempts, created,
            response, ncalls>>

scVars == <<use_local_ai, use_google_ai, question_data, user_answer, reply,
            payload, fp_tie_up, sc_pc, st_bound, content, scoring_result,
            sc_path, n_completions, n_heuristic>>

adVars == <<ad_pc, ad_adapter, ad_messages, ad_transport, ad_sent, ad_result>>

avVars == <<av_pc, av_provider, av_result>>

qzVars == <<qz_pc, qz_fn, qz_args, qz_replies, qz_out>>

mnVars == <<mn_pc, mn_start, selected_provider, mn_recreated, mn_request>>

fcVars == <<total_cards, current_flashcard, flashcard_answer_visible, flashcard_stats, fc_last>>

vars == <<gwVars, scVars, adVars, avVars, qzVars, mnVars, fcVars>>

----------------------------------------------------------------------------
(* Bounds *)

MaxModels == 2      \* longest model list the server returns
MaxCalls  == 2      \* completion calls made on one bound client

----------------------------------------------------------------------------
(* Helpers *)

Range(s) == {s[i] : i \in 1..Len(s)}

NoDup(s) == \A i, j \in 1..Len(s) : i # j => s[i] # s[j]

SeqsUpTo(S, n) == UNION {[1..k -> S] : k \in 0..n}

\* a text (sequence of fragments) is the empty string
IsEmptyText(t) == \A i \in 1..Len(t) : t[i] = ""

\* text t contains text m as a contiguous run of fragments
Embeds(t, m) ==
    \E k \in 0..(Len(t) - Len(m)) : \A i \in 1..Len(m) : t[k + i] = m[i]

----------------------------------------------------------------------------
(* Names *)

LOCAL_AI  == "Local AI (Ollama)"
GOOGLE_AI == "Google AI"
OPENAI    == "OpenAI"

providers_Reversed == <<OPENAI, GOOGLE_AI, LOCAL_AI>>

\* get_working_client's fallback order
providers == <<LOCAL_AI, GOOGLE_AI, OPENAI>>

ProviderSet == Range(providers)

UnknownProvider == "Anthropic"

ModelNames == {"gemma2:2b", "llama3.2"}

\* LocalAIConfig.MODEL_NAME default
MODEL_NAME == "gemma2:2b"

KeyValues == {"", "sk-1"}

ExcTexts == {"", "connection refused"}

----------------------------------------------------------------------------
(* Clients *)

NoClient == [kind |-> "None", error_message |-> <<>>, model |-> ""]

MockClient(error_message) ==
    [kind |-> "MockClient", error_message |-> error_message, model |-> ""]

MockLocalOpenAIClient(model) ==
    [kind |-> "MockLocalOpenAIClient", error_message |-> <<>>, model |-> model]

MockOpenAIClient == [kind |-> "MockOpenAIClient", error_message |-> <<>>, model |-> ""]

OpenAIClient == [kind |-> "OpenAI", error_message |-> <<>>, model |-> ""]

\* the provider a functional client talks to
BoundProvider(c) ==
    CASE c.kind = "MockLocalOpenAIClient" -> LOCAL_AI
      [] c.kind = "MockOpenAIClient"      -> GOOGLE_AI
      [] c.kind = "OpenAI"                -> OPENAI
      [] OTHER                            -> "none"

----------------------------------------------------------------------------
(* local_ai_client.py utilities, session_manager.get_api_key *)

is_ollama_running == tags_probe = "ok"

list_available_models == IF tags_probe = "ok" THEN ollama_models ELSE <<>>

key_mapping_Swapped(provider) ==
    CASE provider = OPENAI    -> "google_ai"
      [] provider = GOOGLE_AI -> "openai"
      [] OTHER                -> ""

key_mapping(provider) ==
    CASE provider = OPENAI    -> "openai"
      [] provider = GOOGLE_AI -> "google_ai"
      [] OTHER                -> ""

get_api_key(provider) ==
    LET key_name == key_mapping(provider)
    IN  IF key_name \in DOMAIN api_keys THEN api_keys[key_name] ELSE ""

----------------------------------------------------------------------------
(* AIClientFactory.create_client                                           *)
(* A result is what the call did: the returned triple, or an exception     *)
(* that left it (raised), and the value selected_local_model has after it. *)

Returned(c, name, ok, sel) ==
    [client |-> c, provider_name |-> name, success |-> ok,
     raised |-> FALSE, exc |-> "", sel |-> sel]

Raised(e, sel) ==
    [client |-> NoClient, provider_name |-> <<>>, success |-> FALSE,
     raised |-> TRUE, exc |-> e, sel |-> sel]

_create_fallback_client_NoMessage(error_message) ==
    Returned(MockClient(<<>>), <<"Error (Mock Client)">>, FALSE,
             selected_local_model)

_create_fallback_client(error_message) ==
    Returned(MockClient(error_message), <<"Error (Mock Client)">>, FALSE,
             selected_local_model)

\* lines 93-97: the session's model if the server still has it, else the first one listed
ModelToUse_Unchecked(available_models) == selected_local_model

ModelToUse(available_models) ==
    IF selected_local_model \in Range(available_models)
    THEN selected_local_model
    ELSE available_models[1]

\* the body of _create_local_client's try block
LocalTry ==
    IF ~is_ollama_running
    THEN _create_fallback_client(
             <<"Ollama server not running. Please start with 'ollama serve'">>)
    ELSE LET available_models == list_available_models
         IN  IF available_models = <<>>
             THEN _create_fallback_client(
                      <<"No Ollama models found. Please install with 'ollama pull gemma2:2b'">>)
             ELSE LET model_to_use == ModelToUse(available_models)
                  IN  IF LOCAL_AI \in ctor_raises
                      THEN Raised(exc_text, model_to_use)
                      ELSE Returned(MockLocalOpenAIClient(model_to_use),
                                    <<"Local AI (", model_to_use, ")">>, TRUE,
                                    model_to_use)

_create_local_client ==
    LET r == LocalTry
    IN  IF r.raised
        THEN [_create_fallback_client(<<"Local AI error: ", r.exc>>)
                 EXCEPT !.sel = r.sel]
        ELSE r

GoogleTry ==
    LET api_key == get_api_key(GOOGLE_AI)
    IN  IF api_key = ""
        THEN _create_fallback_client(<<"Google AI API key not provided">>)
        ELSE IF GOOGLE_AI \in ctor_raises
             THEN Raised(exc_text, selected_local_model)
             ELSE Returned(MockOpenAIClient, <<"Google AI (Gemma 3)">>, TRUE,
                           selected_local_model)

_create_google_client_NoExcept == GoogleTry

_create_google_client ==
    LET r == GoogleTry
    IN  IF r.raised
        THEN _create_fallback_client(<<"Google AI error: ", r.exc>>)
        ELSE r

OpenAITry ==
    LET api_key == get_api_key(OPENAI)
    IN  IF api_key = ""
        THEN _create_fallback_client(<<"OpenAI API key not provided">>)
        ELSE IF OPENAI \in ctor_raises
             THEN Raised(exc_text, selected_local_model)
             ELSE Returned(OpenAIClient, <<"OpenAI">>, TRUE, selected_local_model)

_create_openai_client ==
    LET r == OpenAITry
    IN  IF r.raised
        THEN _create_fallback_client(<<"OpenAI error: ", r.exc>>)
        ELSE r

create_client(provider) ==
    IF provider = LOCAL_AI THEN _create_local_client
    ELSE IF provider = GOOGLE_AI THEN _create_google_client
    ELSE IF provider = OPENAI THEN _create_openai_client
    ELSE _create_fallback_client(<<"Unknown provider: ", provider>>)

\* what a create_client call leaves behind, with the provider it was given
Call(provider) ==
    [provider |-> provider, before |-> selected_local_model,
     result |-> create_client(provider)]

NoCall ==
    [provider |-> "none", before |-> "", result |-> Returned(NoClient, <<>>, FALSE, "")]

----------------------------------------------------------------------------
(* A completion call on the bound client, written by every caller as       *)
(* client.chat.completions.create(...).  Python resolves the attributes    *)
(* one after another on the objects the client is made of.                 *)

\* class of the object held in client.chat
ChatClass(c) ==
    CASE c.kind = "MockClient"            -> "MockChatCompletions"
      [] c.kind = "MockLocalOpenAIClient" -> "LocalChat"
      [] c.kind = "MockOpenAIClient"      -> "ChatCompletions"
      [] OTHER                            -> "openai.Chat"

\* attributes and methods an instance of the class has
Attributes(cls) ==
    CASE cls = "MockChatCompletions" -> {"error_message", "create"}
      [] cls = "LocalChat"           -> {"completions"}
      [] cls = "ChatCompletions"     -> {"client", "completions", "create"}
      [] OTHER                       -> {"completions"}

NoResponse == [raised |-> FALSE, exc |-> "none", content |-> <<>>]

\* MockChatCompletions.create(**kwargs)
MockCreate(c) ==
    [raised |-> FALSE, exc |-> "", content |-> <<"Error: ">> \o c.error_message]

\* client.chat.completions.create(...) on an error client
ChatCompletionsCreate(c) ==
    IF "completions" \in Attributes(ChatClass(c))
    THEN MockCreate(c)
    ELSE [raised |-> TRUE, exc |-> "AttributeError", content |-> <<>>]

----------------------------------------------------------------------------
(* Initial state: a script run begins. SessionManager() has run             *)
(* _init_session_state, get_working_client (app.py:44) is about to run.     *)

ModelLists == {s \in SeqsUpTo(ModelNames, MaxModels) : NoDup(s)}

InitGateway ==
    /\ tags_probe \in {"ok", "http_error", "conn_error"}
    /\ ollama_models \in ModelLists
    /\ ctor_raises = {}
    /\ exc_text = ""
    /\ ai_provider \in ProviderSet
    /\ selected_local_model = MODEL_NAME
    /\ api_keys \in [{"openai", "google_ai"} -> KeyValues]
    /\ client = NoClient
    /\ provider_name = <<>>
    /\ client_successful = FALSE
    /\ pc = "idle"
    /\ current_provider = "none"
    /\ idx = 0
    /\ attempts = <<>>
    /\ created = NoCall
    /\ response = NoResponse
    /\ ncalls = 0

----------------------------------------------------------------------------
(* get_working_client, statement by statement *)

\* lines 176-180: the selected provider is tried first
GwcTryCurrent ==
    /\ pc = "idle"
    /\ LET c == Call(ai_provider)
           r == c.result
       IN  /\ current_provider' = ai_provider
           /\ created' = c
           /\ attempts' = <<ai_provider>>
           /\ selected_local_model' = r.sel
           /\ client' = r.client
           /\ provider_name' = r.provider_name
           /\ client_successful' = r.success
           /\ pc' = IF r.raised THEN "raised" ELSE IF r.success THEN "done" ELSE "loop"
    /\ idx' = 1
    /\ UNCHANGED <<tags_probe, ollama_models, ctor_raises, exc_text, ai_provider,
                   api_keys, response, ncalls>>
    /\ UNCHANGED <<scVars, adVars, avVars, qzVars, mnVars, fcVars>>

\* line 186: the provider already tried is passed over
SkipProvider(provider) == provider = current_provider

\* lines 188-190: the session follows the provider that worked
SwitchedProvider_Always(provider, success) == provider

SwitchedProvider(provider, success) == IF success THEN provider ELSE ai_provider

\* lines 185-192: one iteration of the for loop
GwcLoop ==
    /\ pc = "loop"
    /\ idx <= Len(providers)
    /\ LET provider == providers[idx]
       IN  IF ~SkipProvider(provider)
           THEN LET c == Call(provider)
                    r == c.result
                IN  /\ created' = c
                    /\ attempts' = Append(attempts, provider)
                    /\ selected_local_model' = r.sel
                    /\ client' = r.client
                    /\ provider_name' = r.provider_name
                    /\ client_successful' = r.success
                    /\ ai_provider' = SwitchedProvider(provider, ~r.raised /\ r.success)
                    /\ pc' = IF r.raised THEN "raised" ELSE IF r.success THEN "done" ELSE "loop"
           ELSE UNCHANGED <<created, attempts, selected_local_model, client,
                            provider_name, client_successful, ai_provider, pc>>
    /\ idx' = idx + 1
    /\ UNCHANGED <<tags_probe, ollama_models, ctor_raises, exc_text, api_keys,
                   current_provider, response, ncalls>>
    /\ UNCHANGED <<scVars, adVars, avVars, qzVars, mnVars, fcVars>>

\* line 195: the loop is exhausted, the last error client is returned
GwcAllFailed ==
    /\ pc = "loop"
    /\ idx > Len(providers)
    /\ pc' = "done"
    /\ client_successful' = FALSE
    /\ UNCHANGED <<tags_probe, ollama_models, ctor_raises, exc_text, ai_provider,
                   selected_local_model, api_keys, client, provider_name,
                   current_provider, idx, attempts, created, response, ncalls>>
    /\ UNCHANGED <<scVars, adVars, avVars, qzVars, mnVars, fcVars>>

\* create_client called on its own, with any provider name
CreateClientCall ==
    /\ pc = "idle"
    /\ \E provider \in ProviderSet \cup {UnknownProvider} :
           /\ created' = Call(provider)
           /\ selected_local_model' = created'.result.sel
    /\ pc' = "created"
    /\ UNCHANGED <<tags_probe, ollama_models, ctor_raises, exc_text, ai_provider,
                   api_keys, client, provider_name, client_successful,
                   current_provider, idx, attempts, response, ncalls>>
    /\ UNCHANGED <<scVars, adVars, avVars, qzVars, mnVars, fcVars>>

\* a caller runs client.chat.completions.create(...) on the error client it was given
CompletionOnErrorClient ==
    /\ pc = "done"
    /\ client.kind = "MockClient"
    /\ ncalls < MaxCalls
    /\ response' = ChatCompletionsCreate(client)
    /\ ncalls' = ncalls + 1
    /\ UNCHANGED <<tags_probe, ollama_models, ctor_raises, exc_text, ai_provider,
                   selected_local_model, api_keys, client, provider_name,
                   client_successful, pc, current_provider, idx, attempts, created>>
    /\ UNCHANGED <<scVars, adVars, avVars, qzVars, mnVars, fcVars>>

----------------------------------------------------------------------------
(* Streamlit runs app.py again on every interaction: the globals are bound  *)
(* anew by line 44, st.session_state is kept.                               *)

ScriptRerun ==
    /\ pc \in {"done", "raised", "created"}
    /\ pc' = "idle"
    /\ client' = NoClient
    /\ provider_name' = <<>>
    /\ client_successful' = FALSE
    /\ current_provider' = "none"
    /\ idx' = 0
    /\ attempts' = <<>>
    /\ created' = NoCall
    /\ response' = NoResponse
    /\ ncalls' = 0
    /\ UNCHANGED <<tags_probe, ollama_models, ctor_raises, exc_text, ai_provider,
                   selected_local_model, api_keys>>
    /\ UNCHANGED <<scVars, adVars, avVars, qzVars, mnVars, fcVars>>

\* between two runs: the Ollama server goes up or down, models are pulled or removed
OllamaChanges ==
    /\ pc = "idle"
    /\ tags_probe' \in {"ok", "http_error", "conn_error"}
    /\ ollama_models' \in ModelLists
    /\ UNCHANGED <<ctor_raises, exc_text, ai_provider, selected_local_model,
                   api_keys, client, provider_name, client_successful, pc,
                   current_provider, idx, attempts, created, response, ncalls>>
    /\ UNCHANGED <<scVars, adVars, avVars, qzVars, mnVars, fcVars>>

\* between two runs: a client constructor starts or stops raising
ConstructorsChange ==
    /\ pc = "idle"
    /\ ctor_raises' \in SUBSET ProviderSet
    /\ exc_text' \in IF ctor_raises' = {} THEN {""} ELSE ExcTexts
    /\ UNCHANGED <<tags_probe, ollama_models, ai_provider, selected_local_model,
                   api_keys, client, provider_name, client_successful, pc,
                   current_provider, idx, attempts, created, response, ncalls>>
    /\ UNCHANGED <<scVars, adVars, avVars, qzVars, mnVars, fcVars>>

\* session_manager.set_api_key
set_api_key ==
    /\ pc = "idle"
    /\ \E provider \in {GOOGLE_AI, OPENAI}, key \in KeyValues :
           api_keys' = [api_keys EXCEPT ![key_mapping(provider)] = key]
    /\ UNCHANGED <<tags_probe, ollama_models, ctor_raises, exc_text, ai_provider,
                   selected_local_model, client, provider_name, client_successful,
                   pc, current_provider, idx, attempts, created, response, ncalls>>
    /\ UNCHANGED <<scVars, adVars, avVars, qzVars, mnVars, fcVars>>

\* session_manager.render_provider_selector, the model selector of app.py
SelectInSidebar ==
    /\ pc = "idle"
    /\ ai_provider' \in ProviderSet
    /\ selected_local_model' \in ModelNames
    /\ UNCHANGED <<tags_probe, ollama_models, ctor_raises, exc_text, api_keys,
                   client, provider_name, client_successful, pc, current_provider,
                   idx, attempts, created, response, ncalls>>
    /\ UNCHANGED <<scVars, adVars, avVars, qzVars, mnVars, fcVars>>

----------------------------------------------------------------------------
(* open_ended_processor.py: score_open_ended_answer                        *)
(*                                                                         *)
(* Scores are counted in tenths of a mark, percentages in tenths of a      *)
(* percent: round(x, 1) yields a whole number of tenths.                   *)

MaxMarks      == 4     \* largest total_marks of a question
MaxTextLen    == 3     \* longest reply text, in tokens
MaxKeywordHit == 1     \* most rubric words an answer holds

\* A reply text is a sequence of tokens: a brace, the members of a JSON
\* object ("a": "total_score": .., "max_score": ..), or prose ("x").
TextTokens == {"{", "}", "a", "x"}

Texts == SeqsUpTo(TextTokens, MaxTextLen)

Replies == [raises : {TRUE}, content : {<<>>}] \cup [raises : {FALSE}, content : Texts]

\* An answer is some filler words followed by words of interest.
AnswerWords == {"H2O", "Hydrogen", "water"}

Fillers == {0, 9, 50}

\* answers that hold every keyword of the water rubric, with 50 words and more
FullAnswers == [filler : {47, 50}, words : {<<"H2O", "Hydrogen", "oxygen">>}]

Answers == [filler : Fillers, words : SeqsUpTo(AnswerWords, MaxKeywordHit)] \cup FullAnswers

\* str.lower()
lower(w) ==
    CASE w = "H2O"      -> "h2o"
      [] w = "Hydrogen" -> "hydrogen"
      [] OTHER          -> w

\* len(user_answer.split())
word_count(answer) == answer.filler + Len(answer.words)

\* not user_answer.strip()
IsBlank(answer) == word_count(answer) = 0

\* the comparison without .lower()
Contains_CaseSensitive(answer, keyword) ==
    \E i \in 1..Len(answer.words) : answer.words[i] = keyword

\* keyword.lower() in user_answer.lower()
Contains(answer, keyword) ==
    \E i \in 1..Len(answer.words) : lower(answer.words[i]) = lower(keyword)

\* questions as generate_open_ended_questions returns them
Criterion(marks, keywords) == [marks |-> marks, keywords |-> keywords]

Questions ==
    {[total_marks |-> t, marking_scheme |-> ms] :
        t \in 2..MaxMarks,
        ms \in {<<Criterion(1, <<"H2O", "hydrogen", "oxygen">>)>>,
                <<Criterion(1, <<"H2O">>), Criterion(1, <<>>)>>}}

Min(a, b) == IF a <= b THEN a ELSE b

Max(a, b) == IF a >= b THEN a ELSE b

RECURSIVE SumSeq(_)
\* the += over the criteria of the marking scheme
SumSeq(ns) == IF ns = <<>> THEN 0 ELSE Head(ns) + SumSeq(Tail(ns))

\* round(n/d, 0) for n >= 0, d > 0; an exact tie falls as the binary value of the quotient lies
Round(n, d) ==
    LET q == n \div d
        r == n % d
    IN  IF 2 * r < d THEN q
        ELSE IF 2 * r > d THEN q + 1
        ELSE IF fp_tie_up THEN q + 1 ELSE q

NoAnswerResult_FullMarks(q) ==
    [total_score |-> 10 * q.total_marks, max_score |-> 10 * q.total_marks,
     percentage |-> 1000, feedback |-> "No answer provided.", criterion_scores |-> <<>>]

\* lines 162-169
NoAnswerResult(q) ==
    [total_score |-> 0, max_score |-> 10 * q.total_marks, percentage |-> 0,
     feedback |-> "No answer provided.", criterion_scores |-> <<>>]

\* a score for each criterion in the result, without the disclosure
_fallback_scoring_PerCriterion(q, answer) ==
    LET total_marks == q.total_marks
        wc == Min(word_count(answer), 50)
        CountAll(criterion) == Len(criterion.keywords)
        CountFound(criterion) ==
            Cardinality({i \in 1..Len(criterion.keywords) :
                            Contains(answer, criterion.keywords[i])})
        scheme == q.marking_scheme
        total_keywords == SumSeq([i \in 1..Len(scheme) |-> CountAll(scheme[i])])
        keyword_score == SumSeq([i \in 1..Len(scheme) |-> CountFound(scheme[i])])
        K == Max(total_keywords, 1)
        num == 3 * wc * K + 350 * keyword_score
    IN  [total_score |-> Round(total_marks * num, 50 * K),
         max_score |-> 10 * total_marks,
         percentage |-> Round(2 * num, K),
         overall_feedback |-> "Answer evaluated.",
         criterion_scores |-> [i \in 1..Len(scheme) |-> CountFound(scheme[i])],
         strengths |-> <<"Answer provided">>,
         improvements |-> <<"Consider adding more specific details">>]

\* the keywords that are missing from the answer are counted
_fallback_scoring_CountsMissing(q, answer) ==
    LET total_marks == q.total_marks
        wc == Min(word_count(answer), 50)
        CountAll(criterion) == Len(criterion.keywords)
        CountFound(criterion) ==
            Cardinality({i \in 1..Len(criterion.keywords) :
                            ~Contains(answer, criterion.keywords[i])})
        scheme == q.marking_scheme
        total_keywords == SumSeq([i \in 1..Len(scheme) |-> CountAll(scheme[i])])
        keyword_score == SumSeq([i \in 1..Len(scheme) |-> CountFound(scheme[i])])
        K == Max(total_keywords, 1)
        num == 3 * wc * K + 350 * keyword_score
    IN  [total_score |-> Round(total_marks * num, 50 * K),
         max_score |-> 10 * total_marks,
         percentage |-> Round(2 * num, K),
         overall_feedback |-> "Answer evaluated using basic scoring. AI detailed scoring unavailable.",
         criterion_scores |-> <<>>,
         strengths |-> <<"Answer provided">>,
         improvements |-> <<"Consider adding more specific details">>]

\* lines 262-291; final_score = (base_score * 0.3 + keyword_ratio * 0.7) * total_marks
\*   = total_marks * (3 * min(wc, 50) * K + 350 * found) / (500 * K),  K = max(total_keywords, 1)
_fallback_scoring(q, answer) ==
    LET total_marks == q.total_marks
        wc == Min(word_count(answer), 50)
        CountAll(criterion) == Len(criterion.keywords)
        CountFound(criterion) ==
            Cardinality({i \in 1..Len(criterion.keywords) :
                            Contains(answer, criterion.keywords[i])})
        scheme == q.marking_scheme
        total_keywords == SumSeq([i \in 1..Len(scheme) |-> CountAll(scheme[i])])
        keyword_score == SumSeq([i \in 1..Len(scheme) |-> CountFound(scheme[i])])
        K == Max(total_keywords, 1)
        num == 3 * wc * K + 350 * keyword_score
    IN  [total_score |-> Round(total_marks * num, 50 * K),
         max_score |-> 10 * total_marks,
         percentage |-> Round(2 * num, K),
         overall_feedback |-> "Answer evaluated using basic scoring. AI detailed scoring unavailable.",
         criterion_scores |-> <<>>,
         strengths |-> <<"Answer provided">>,
         improvements |-> <<"Consider adding more specific details">>]

\* re.search(r'\{.*\}', content, re.DOTALL): from the first "{" to the last "}"
BraceSpan(text) ==
    LET opens == {i \in 1..Len(text) : text[i] = "{"}
        closes == {i \in 1..Len(text) : text[i] = "}"}
    IN  IF opens = {} THEN <<>>
        ELSE LET first == CHOOSE i \in opens : \A k \in opens : i <= k
                 after == {j \in closes : j > first}
             IN  IF after = {} THEN <<>>
                 ELSE LET last == CHOOSE j \in after : \A k \in after : k <= j
                      IN  SubSeq(text, first, last)

\* json.loads succeeds on the span
IsJson(span) == span \in {<<"{", "}">>, <<"{", "a", "}">>}

\* json.loads(span)
json_loads(span) ==
    IF span = <<"{", "a", "}">>
    THEN [total_score |-> payload.total_score, max_score |-> payload.max_score]
    ELSE <<>>

\* the scores a model writes into its document: within the marks of the question, or above them
Payloads(q) ==
    [total_score : {10 * q.total_marks, 10 * q.total_marks + 10},
     max_score : {10 * q.total_marks}]

NoReply == [raises |-> FALSE, content |-> <<>>]

ScInputs ==
    /\ use_local_ai \in BOOLEAN
    /\ use_google_ai \in BOOLEAN
    /\ ~(use_local_ai /\ use_google_ai)
    /\ question_data \in Questions
    /\ user_answer \in Answers
    /\ payload \in Payloads(question_data)
    /\ fp_tie_up \in BOOLEAN

ScFresh ==
    /\ sc_pc = "idle"
    /\ reply = NoReply
    /\ st_bound = FALSE
    /\ content = <<>>
    /\ scoring_result = <<>>
    /\ sc_path = "none"
    /\ n_completions = 0
    /\ n_heuristic = 0

InitScoring == ScInputs /\ ScFresh

\* lines 162-169: an empty answer is not sent to the model
ScEmptyAnswer ==
    /\ sc_pc = "idle"
    /\ IsBlank(user_answer)
    /\ scoring_result' = NoAnswerResult(question_data)
    /\ sc_path' = "empty"
    /\ sc_pc' = "returned"
    /\ UNCHANGED <<use_local_ai, use_google_ai, question_data, user_answer, reply,
                   payload, fp_tie_up, st_bound, content, n_completions, n_heuristic>>
    /\ UNCHANGED <<gwVars, adVars, avVars, qzVars, mnVars, fcVars>>

\* lines 225-245: the model is chosen (binding st for Local) and the completion call made
ScCallModel ==
    /\ sc_pc = "idle"
    /\ ~IsBlank(user_answer)
    /\ st_bound' = use_local_ai
    /\ n_completions' = n_completions + 1
    /\ reply' \in Replies
    /\ sc_pc' = IF reply'.raises THEN "except" ELSE "extract"
    /\ content' = reply'.content
    /\ UNCHANGED <<use_local_ai, use_google_ai, question_data, user_answer, payload,
                   fp_tie_up, scoring_result, sc_path, n_heuristic>>
    /\ UNCHANGED <<gwVars, adVars, avVars, qzVars, mnVars, fcVars>>

\* lines 247-256
ScExtract ==
    /\ sc_pc = "extract"
    /\ LET json_match == BraceSpan(content)
       IN  IF json_match = <<>>
           THEN /\ scoring_result' = _fallback_scoring(question_data, user_answer)
                /\ n_heuristic' = n_heuristic + 1
                /\ sc_path' = "heuristic"
                /\ sc_pc' = "returned"
           ELSE IF IsJson(json_match)
           THEN /\ scoring_result' = json_loads(json_match)
                /\ sc_path' = "model"
                /\ sc_pc' = "returned"
                /\ UNCHANGED n_heuristic
           ELSE /\ sc_pc' = "except"
                /\ UNCHANGED <<scoring_result, sc_path, n_heuristic>>
    /\ UNCHANGED <<use_local_ai, use_google_ai, question_data, user_answer, reply,
                   payload, fp_tie_up, st_bound, content, n_completions>>
    /\ UNCHANGED <<gwVars, adVars, avVars, qzVars, mnVars, fcVars>>

\* lines 258-260: st.error(...) needs the local name st, then the heuristic scorer runs
ScExcept ==
    /\ sc_pc = "except"
    /\ IF st_bound
       THEN /\ scoring_result' = _fallback_scoring(question_data, user_answer)
            /\ n_heuristic' = n_heuristic + 1
            /\ sc_path' = "heuristic"
            /\ sc_pc' = "returned"
       ELSE /\ sc_pc' = "raised"
            /\ UNCHANGED <<scoring_result, sc_path, n_heuristic>>
    /\ UNCHANGED <<use_local_ai, use_google_ai, question_data, user_answer, reply,
                   payload, fp_tie_up, st_bound, content, n_completions>>
    /\ UNCHANGED <<gwVars, adVars, avVars, qzVars, mnVars, fcVars>>

\* the call is over: the caller has taken the result (app.py:471)
ScReturn ==
    /\ sc_pc \in {"returned", "raised"}
    /\ sc_pc' = "new"
    /\ use_local_ai' = FALSE
    /\ use_google_ai' = FALSE
    /\ question_data' = [total_marks |-> 1, marking_scheme |-> <<>>]
    /\ user_answer' = [filler |-> 0, words |-> <<>>]
    /\ payload' = [total_score |-> 0, max_score |-> 10]
    /\ fp_tie_up' = FALSE
    /\ reply' = NoReply
    /\ st_bound' = FALSE
    /\ content' = <<>>
    /\ scoring_result' = <<>>
    /\ sc_path' = "none"
    /\ n_completions' = 0
    /\ n_heuristic' = 0
    /\ UNCHANGED <<gwVars, adVars, avVars, qzVars, mnVars, fcVars>>

\* app.py:463-471: a processor for the session's provider scores the next answer
ScNextCall ==
    /\ sc_pc = "new"
    /\ use_local_ai' \in BOOLEAN
    /\ use_google_ai' \in BOOLEAN
    /\ ~(use_local_ai' /\ use_google_ai')
    /\ question_data' \in Questions
    /\ user_answer' \in Answers
    /\ payload' \in Payloads(question_data')
    /\ fp_tie_up' \in BOOLEAN
    /\ sc_pc' = "idle"
    /\ reply' = NoReply
    /\ st_bound' = FALSE
    /\ content' = <<>>
    /\ scoring_result' = <<>>
    /\ sc_path' = "none"
    /\ n_completions' = 0
    /\ n_heuristic' = 0
    /\ UNCHANGED <<gwVars, adVars, avVars, qzVars, mnVars, fcVars>>

----------------------------------------------------------------------------
(* Provider adapters: LocalAIClient.generate_completion,                   *)
(* GoogleAIClient.chat_completions_create                                  *)

MaxMessages == 2     \* longest message list of a request

Roles == {"system", "user", "assistant"}

MessageTexts == {"", "q1", "q2"}

Messages == SeqsUpTo([role : Roles, content : MessageTexts], MaxMessages)

\* POST {base}/api/generate: requests.post raises, a status other than 200, a body that
\* is not JSON, a JSON body without "response", a JSON body with the generated text
LocalTransports == {"timeout", "http_error", "malformed", "no_response_field", "text"}

\* client.models.generate_content: raises, returns nothing or an empty text, returns text
GoogleTransports == {"raises", "empty", "text"}

Completion(text) == [raised |-> FALSE, exc |-> <<>>, content |-> text]

Exception(text) == [raised |-> TRUE, exc |-> text, content |-> <<>>]

NoResult == [raised |-> FALSE, exc |-> <<>>, content |-> <<"none">>]

\* lines 145-176 of local_ai_client.py: the try block
GenerateTry(transport) ==
    CASE transport = "timeout"           -> Exception(<<"ReadTimeout">>)
      [] transport = "http_error"        ->
             Exception(<<"Local AI request failed: ", "500", " - ", "body">>)
      [] transport = "malformed"         -> Exception(<<"JSONDecodeError">>)
      [] transport = "no_response_field" -> Completion(<<"">>)
      [] OTHER                           -> Completion(<<"generated">>)

\* the claimed conversion: the error becomes the text of a completion
generate_completion_Converts(transport) ==
    LET r == GenerateTry(transport)
    IN  IF r.raised THEN Completion(<<"Error: ">> \o r.exc) ELSE r

\* LocalAIClient.generate_completion: except Exception: logger.error(...); raise
generate_completion(transport) == GenerateTry(transport)

\* lines 19-23 of google_ai_client.py: the content of the first user message
UserContent(messages) ==
    LET users == {i \in 1..Len(messages) : messages[i].role = "user"}
    IN  IF users = {} THEN ""
        ELSE messages[CHOOSE i \in users : \A k \in users : i <= k].content

\* lines 17-50 of google_ai_client.py: the try block
ChatTry(messages, transport) ==
    LET user_content == UserContent(messages)
    IN  IF user_content = ""
        THEN Exception(<<"No user message found in the request">>)
        ELSE CASE transport = "raises" -> Exception(<<"ServerError">>)
               [] transport = "empty"  ->
                      Exception(<<"Empty response from Google AI API, please check your API key, credit and model configuration.">>)
               [] OTHER                -> Completion(<<"generated">>)

\* GoogleAIClient.chat_completions_create: raise Exception(f"Google AI API error: {str(e)}")
chat_completions_create(messages, transport) ==
    LET r == ChatTry(messages, transport)
    IN  IF r.raised THEN Exception(<<"Google AI API error: ">> \o r.exc) ELSE r

\* the contents handed to client.models.generate_content, "" when it is not reached
SentContents(messages) == UserContent(messages)

InitAdapter ==
    /\ ad_pc = "idle"
    /\ ad_adapter = "none"
    /\ ad_messages = <<>>
    /\ ad_transport = "none"
    /\ ad_sent = ""
    /\ ad_result = NoResult

\* LocalAIClient.generate_completion(prompt, temperature, max_tokens)
LocalCompletion ==
    /\ ad_pc = "idle"
    /\ \E transport \in LocalTransports, messages \in Messages :
           /\ ad_transport' = transport
           /\ ad_messages' = messages
           /\ ad_result' = generate_completion(transport)
    /\ ad_adapter' = "LocalAIClient"
    /\ ad_sent' = ""
    /\ ad_pc' = IF ad_result'.raised THEN "raised" ELSE "returned"
    /\ UNCHANGED <<gwVars, scVars, avVars, qzVars, mnVars, fcVars>>

\* GoogleAIClient.chat_completions_create(model, messages, temperature, max_tokens)
GoogleCompletion ==
    /\ ad_pc = "idle"
    /\ \E transport \in GoogleTransports, messages \in Messages :
           /\ ad_transport' = transport
           /\ ad_messages' = messages
           /\ ad_result' = chat_completions_create(messages, transport)
           /\ ad_sent' = SentContents(messages)
    /\ ad_adapter' = "GoogleAIClient"
    /\ ad_pc' = IF ad_result'.raised THEN "raised" ELSE "returned"
    /\ UNCHANGED <<gwVars, scVars, avVars, qzVars, mnVars, fcVars>>

\* the caller has the completion, or has caught the exception
AdapterCallOver ==
    /\ ad_pc \in {"returned", "raised"}
    /\ ad_pc' = "idle"
    /\ ad_adapter' = "none"
    /\ ad_messages' = <<>>
    /\ ad_transport' = "none"
    /\ ad_sent' = ""
    /\ ad_result' = NoResult
    /\ UNCHANGED <<gwVars, scVars, avVars, qzVars, mnVars, fcVars>>

----------------------------------------------------------------------------
(* session_manager.py: check_provider_availability                         *)
(* A status is what the call did: the pair it returned or an exception     *)
(* that left it, and the network calls it made on the way.                 *)

Status(available, message, network) ==
    [raised |-> FALSE, available |-> available, message |-> message,
     network |-> network]

StatusRaised(network) ==
    [raised |-> TRUE, available |-> FALSE, message |-> <<>>, network |-> network]

NoStatus == Status(FALSE, <<>>, <<>>)

\* str(len(models))
Decimal(n) == <<"0", "1", "2", "3", "4">>[n + 1]

\* lines 224-234, the try block; both probes are GET /api/tags
OllamaTry ==
    IF is_ollama_running
    THEN LET models == list_available_models
         IN  IF models # <<>>
             THEN Status(TRUE, <<"Running with ", Decimal(Len(models)), " models">>,
                         <<"GET /api/tags", "GET /api/tags">>)
             ELSE Status(FALSE, <<"Running but no models available">>,
                         <<"GET /api/tags", "GET /api/tags">>)
    ELSE Status(FALSE, <<"Server not running">>, <<"GET /api/tags">>)

\* lines 222-236
_check_ollama_availability ==
    LET r == OllamaTry
    IN  IF r.raised
        THEN Status(FALSE, <<"Connection error: ", exc_text>>, r.network)
        ELSE r

CloudCheck_KeyIgnored(provider) == Status(TRUE, <<"API key available">>, <<>>)

\* lines 211-215 and 216-220
CloudCheck(provider) ==
    LET api_key == get_api_key(provider)
    IN  IF api_key = ""
        THEN Status(FALSE, <<"API key not provided">>, <<>>)
        ELSE Status(TRUE, <<"API key available">>, <<>>)

check_provider_availability_KeyError(provider) ==
    IF provider = LOCAL_AI THEN _check_ollama_availability
    ELSE IF provider \in {GOOGLE_AI, OPENAI} THEN CloudCheck(provider)
    ELSE StatusRaised(<<>>)

\* lines 207-221
check_provider_availability(provider) ==
    IF provider = LOCAL_AI THEN _check_ollama_availability
    ELSE IF provider = GOOGLE_AI THEN CloudCheck(provider)
    ELSE IF provider = OPENAI THEN CloudCheck(provider)
    ELSE Status(FALSE, <<"Unknown provider">>, <<>>)

InitAvailability ==
    /\ av_pc = "idle"
    /\ av_provider = "none"
    /\ av_result = NoStatus

\* update_provider_status, render_provider_selector: one provider is checked
CheckProviderAvailability ==
    /\ av_pc = "idle"
    /\ \E provider \in ProviderSet \cup {UnknownProvider} :
           /\ av_provider' = provider
           /\ av_result' = check_provider_availability(provider)
    /\ av_pc' = "checked"
    /\ UNCHANGED <<gwVars, scVars, adVars, qzVars, mnVars, fcVars>>

\* the caller stores the pair in st.session_state.provider_status
StatusStored ==
    /\ av_pc = "checked"
    /\ av_pc' = "idle"
    /\ av_provider' = "none"
    /\ av_result' = NoStatus
    /\ UNCHANGED <<gwVars, scVars, adVars, qzVars, mnVars, fcVars>>

\* between two checks the server and the credentials change
ServerChangesBetweenChecks ==
    /\ av_pc = "idle"
    /\ OllamaChanges

KeyEnteredBetweenChecks ==
    /\ av_pc = "idle"
    /\ set_api_key

----------------------------------------------------------------------------
(* Response texts and JSON                                                 *)
(*                                                                         *)
(* A response text is a sequence of pieces [ch, n]: the piece is the       *)
(* first n characters of ch.  A whole token has n = CharLen(ch); a run of  *)
(* prose is [ch |-> "x", n |-> its length]; only slicing yields a token    *)
(* cut short.  For the fixed fragments of a message n is not counted.      *)

MaxProse == 1001    \* longest run of prose in a response
MaxCount == 5       \* largest number of questions asked for

\* the double quote character
QUOTE == "dq"

SPACE == " "

\* three backticks
FENCE == "fence"

CharLen(ch) ==
    CASE ch = FENCE            -> 3
      [] ch = "json"           -> 4
      [] ch = "questions"      -> 9
      [] ch = "options"        -> 7
      [] ch = "correct_answer" -> 14
      [] ch = "error"          -> 5
      [] OTHER                 -> 1

Tok(ch) == [ch |-> ch, n |-> CharLen(ch)]

Prose(n) == [ch |-> "x", n |-> n]

\* a fixed fragment of an f-string
Lit(str) == [ch |-> str, n |-> 0]

EndOfText == [ch |-> "", n |-> 0]

At(text, i) == IF i \in 1..Len(text) THEN text[i] ELSE EndOfText

IsTok(piece, ch) == piece = Tok(ch)

\* len(content)
Chars(text) == SumSeq([i \in 1..Len(text) |-> text[i].n])

RECURSIVE Take(_, _)
\* content[:k]
Take(text, k) ==
    IF text = <<>> \/ k = 0 THEN <<>>
    ELSE IF Head(text).n <= k
         THEN <<Head(text)>> \o Take(Tail(text), k - Head(text).n)
         ELSE <<[ch |-> Head(text).ch, n |-> k]>>

\* the first index from i on that holds no whitespace, Len + 1 if there is none
SkipWs(text, i) ==
    LET rest == {j \in i..Len(text) : ~IsTok(text[j], SPACE)}
    IN  IF rest = {} THEN Max(Len(text) + 1, i)
        ELSE CHOOSE j \in rest : \A k \in rest : j <= k

\* str.strip()
strip(text) ==
    LET solid == {j \in 1..Len(text) : ~IsTok(text[j], SPACE)}
    IN  IF solid = {} THEN <<>>
        ELSE SubSeq(text, CHOOSE j \in solid : \A k \in solid : j <= k,
                          CHOOSE j \in solid : \A k \in solid : k <= j)

\* JSON values as Python holds them.  An object is a dict: a set of
\* <<key, value>> pairs with one pair per key.
JNum(s) == [t |-> "num", s |-> s, items |-> <<>>, m |-> {}]

JStr(s) == [t |-> "str", s |-> s, items |-> <<>>, m |-> {}]

JArr(items) == [t |-> "arr", s |-> <<>>, items |-> items, m |-> {}]

JObj(m) == [t |-> "obj", s |-> <<>>, items |-> <<>>, m |-> m]

Key(name) == <<Tok(name)>>

HasKey(v, name) == v.t = "obj" /\ \E p \in v.m : p[1] = Key(name)

Get(v, name) == (CHOOSE p \in v.m : p[1] = Key(name))[2]

Digits == {"1", "2"}

\* the value of an expression, computed once
Only(S) == CHOOSE x \in S : TRUE

ParseFail == [ok |-> FALSE, val |-> JNum(<<>>), next |-> 0]

Parsed(val, next) == [ok |-> TRUE, val |-> val, next |-> next]

ParseString_StopsAtBrace(text, i) ==
    LET closing == {j \in (i + 1)..Len(text) : text[j].ch \in {QUOTE, "}"}}
    IN  IF ~IsTok(At(text, i), QUOTE) \/ closing = {} THEN ParseFail
        ELSE LET j == CHOOSE j \in closing : \A k \in closing : j <= k
             IN  Parsed(JStr(SubSeq(text, i + 1, j - 1)), j + 1)

\* a string: from a quote to the next quote (escapes are not modelled)
ParseString(text, i) ==
    LET closing == {j \in (i + 1)..Len(text) : IsTok(text[j], QUOTE)}
    IN  IF ~IsTok(At(text, i), QUOTE) \/ closing = {} THEN ParseFail
        ELSE LET j == CHOOSE j \in closing : \A k \in closing : j <= k
             IN  Parsed(JStr(SubSeq(text, i + 1, j - 1)), j + 1)

RECURSIVE ParseValue(_, _), ParseItems(_, _, _), ParseMembers(_, _, _)

\* json.JSONDecoder: one value starting at piece i
ParseValue(text, i) ==
    LET piece == At(text, i)
    IN  IF IsTok(piece, QUOTE) THEN ParseString(text, i)
        ELSE IF piece.ch \in Digits /\ piece.n = 1 THEN Parsed(JNum(<<piece>>), i + 1)
        ELSE IF IsTok(piece, "[")
             THEN LET j == SkipWs(text, i + 1)
                  IN  IF IsTok(At(text, j), "]") THEN Parsed(JArr(<<>>), j + 1)
                      ELSE ParseItems(text, j, <<>>)
        ELSE IF IsTok(piece, "{")
             THEN LET j == SkipWs(text, i + 1)
                  IN  IF IsTok(At(text, j), "}") THEN Parsed(JObj({}), j + 1)
                      ELSE ParseMembers(text, j, {})
        ELSE ParseFail

ParseItems(text, i, acc) ==
    Only({IF ~v.ok THEN ParseFail
          ELSE Only({IF IsTok(At(text, j), ",")
                     THEN ParseItems(text, SkipWs(text, j + 1), Append(acc, v.val))
                     ELSE IF IsTok(At(text, j), "]")
                     THEN Parsed(JArr(Append(acc, v.val)), j + 1)
                     ELSE ParseFail
                     : j \in {SkipWs(text, v.next)}})
          : v \in {ParseValue(text, i)}})

\* a key met again replaces the value it had
ParseMembers(text, i, acc) ==
    Only({IF ~k.ok \/ ~IsTok(At(text, SkipWs(text, k.next)), ":") THEN ParseFail
          ELSE Only({IF ~v.ok THEN ParseFail
                     ELSE Only({IF IsTok(At(text, j), ",")
                                THEN ParseMembers(text, SkipWs(text, j + 1),
                                         {p \in acc : p[1] # k.val.s} \cup {<<k.val.s, v.val>>})
                                ELSE IF IsTok(At(text, j), "}")
                                THEN Parsed(JObj({p \in acc : p[1] # k.val.s}
                                                 \cup {<<k.val.s, v.val>>}), j + 1)
                                ELSE ParseFail
                                : j \in {SkipWs(text, v.next)}})
                     : v \in {ParseValue(text, SkipWs(text, SkipWs(text, k.next) + 1))}})
          : k \in {ParseString(text, i)}})

\* json.loads(text): one value and nothing but whitespace around it
JsonLoads(text) ==
    Only({IF v.ok /\ SkipWs(text, v.next) = Len(text) + 1 THEN v ELSE ParseFail
          : v \in {ParseValue(text, SkipWs(text, 1))}})

RECURSIVE JoinWith(_, _)
\* ", ".join(parts)
JoinWith(parts, sep) ==
    IF parts = <<>> THEN <<>>
    ELSE IF Len(parts) = 1 THEN parts[1]
    ELSE parts[1] \o sep \o JoinWith(Tail(parts), sep)

RECURSIVE SetToSeq(_)
\* the members of a dict in the order they were inserted (some order)
SetToSeq(S) ==
    IF S = {} THEN <<>>
    ELSE LET x == CHOOSE x \in S : TRUE IN <<x>> \o SetToSeq(S \ {x})

RECURSIVE JsonDumps(_)
\* json.dumps(value) with its default separators ", " and ": "
JsonDumps(v) ==
    CASE v.t = "num" -> v.s
      [] v.t = "str" -> <<Tok(QUOTE)>> \o v.s \o <<Tok(QUOTE)>>
      [] v.t = "arr" ->
            <<Tok("[")>>
            \o JoinWith([i \in 1..Len(v.items) |-> JsonDumps(v.items[i])],
                        <<Tok(","), Tok(SPACE)>>)
            \o <<Tok("]")>>
      [] v.t = "obj" ->
            LET members == SetToSeq(v.m)
                Member(p) == <<Tok(QUOTE)>> \o p[1] \o <<Tok(QUOTE), Tok(":"), Tok(SPACE)>>
                             \o JsonDumps(p[2])
            IN  <<Tok("{")>>
                \o JoinWith([i \in 1..Len(members) |-> Member(members[i])],
                            <<Tok(","), Tok(SPACE)>>)
                \o <<Tok("}")>>

----------------------------------------------------------------------------
(* app.py: generate_quiz and its response extraction (lines 114-293)       *)

\* content[:1000]
DiagLimit == 1000

MIXED == "Mixed (MCQ + T/F)"

QuizTypes == {MIXED, "Multiple Choice", "True or False"}

\* re.search(r'```(?:json)?\s*(\{.*\})\s*```', content, re.DOTALL).group(1),
\* without the tag when tagged is FALSE; <<>> when nothing matches.
\* The leftmost fence that can begin a match begins it, and .* runs to the
\* last closing brace that whitespace and a fence follow.
FencedSpan(text, tagged) ==
    LET Open(i) ==
            SkipWs(text, IF tagged /\ IsTok(At(text, i + 1), "json") THEN i + 2 ELSE i + 1)
        Closes(p) ==
            {q \in (p + 1)..Len(text) :
                /\ IsTok(text[q], "}")
                /\ IsTok(At(text, SkipWs(text, q + 1)), FENCE)}
        starts ==
            {i \in 1..Len(text) :
                /\ IsTok(text[i], FENCE)
                /\ IsTok(At(text, Open(i)), "{")
                /\ Closes(Open(i)) # {}}
    IN  IF starts = {} THEN <<>>
        ELSE LET i == CHOOSE i \in starts : \A k \in starts : i <= k
                 p == Open(i)
                 q == CHOOSE q \in Closes(p) : \A k \in Closes(p) : k <= q
             IN  SubSeq(text, p, q)

\* re.search(r'\{.*\}', content, re.DOTALL).group(): first "{" to last "}"
FirstBraceSpan(text) ==
    LET opens == {i \in 1..Len(text) : IsTok(text[i], "{")}
    IN  IF opens = {} THEN <<>>
        ELSE LET first == CHOOSE i \in opens : \A k \in opens : i <= k
                 after == {j \in (first + 1)..Len(text) : IsTok(text[j], "}")}
             IN  IF after = {} THEN <<>>
                 ELSE SubSeq(text, first, CHOOSE j \in after : \A k \in after : k <= j)

\* {"error": message}
ErrorDoc(message) == JObj({<<Key("error"), JStr(message)>>})

\* lines 286-290
ParseErrorDoc(text) ==
    ErrorDoc(<<Lit("Failed to parse quiz data. Response content: ")>>
             \o (IF Chars(text) > DiagLimit
                 THEN Take(text, DiagLimit) \o <<Lit("...")>>
                 ELSE text))

Extracted(result, strategy) == [result |-> result, strategy |-> strategy]

\* the value json.loads gives for a span, ParseFail when there is no span
LoadSpan(span) == IF span = <<>> THEN ParseFail ELSE JsonLoads(span)

Extract_DirectOnly(text) ==
    Only({IF direct.ok THEN Extracted(direct.val, 1)
          ELSE Extracted(ParseErrorDoc(text), 0)
          : direct \in {JsonLoads(text)}})

\* the brace span tried before the fenced blocks
Extract_BraceSpanFirst(text) ==
    Only({IF direct.ok THEN Extracted(direct.val, 1)
          ELSE IF span.ok THEN Extracted(span.val, 4)
          ELSE IF tagged.ok THEN Extracted(tagged.val, 2)
          ELSE IF bare.ok THEN Extracted(bare.val, 3)
          ELSE Extracted(ParseErrorDoc(text), 0)
          : direct \in {JsonLoads(text)},
            tagged \in {LoadSpan(FencedSpan(text, TRUE))},
            bare \in {LoadSpan(FencedSpan(text, FALSE))},
            span \in {LoadSpan(FirstBraceSpan(text))}})

\* lines 246-290: the strategies in their order; strategy 0 is the error document
Extract(text) ==
    Only({IF direct.ok THEN Extracted(direct.val, 1)
          ELSE IF tagged.ok THEN Extracted(tagged.val, 2)
          ELSE IF bare.ok THEN Extracted(bare.val, 3)
          ELSE IF span.ok THEN Extracted(span.val, 4)
          ELSE Extracted(ParseErrorDoc(text), 0)
          : direct \in {JsonLoads(text)},
            tagged \in {LoadSpan(FencedSpan(text, TRUE))},
            bare \in {LoadSpan(FencedSpan(text, FALSE))},
            span \in {LoadSpan(FirstBraceSpan(text))}})

\* what a prompt asks the model for
Request(kind, exactly, multiple_choice, true_false) ==
    [kind |-> kind, exactly |-> exactly, multiple_choice |-> multiple_choice,
     true_false |-> true_false]

MixedSplit_HalfUp(num_questions) ==
    [mcq_count |-> (num_questions + 1) \div 2,
     tf_count |-> num_questions - (num_questions + 1) \div 2]

\* lines 153-154
MixedSplit(num_questions) ==
    [mcq_count |-> num_questions \div 2,
     tf_count |-> num_questions - num_questions \div 2]

\* lines 151-225
Prompt(quiz_type, num_questions) ==
    IF quiz_type = MIXED
    THEN Request("closed", num_questions, MixedSplit(num_questions).mcq_count,
                 MixedSplit(num_questions).tf_count)
    ELSE IF quiz_type = "Multiple Choice"
    THEN Request("closed", num_questions, num_questions, 0)
    ELSE Request("closed", num_questions, 0, num_questions)

\* what a completion call does: it raises, or returns the text pre + body + post
Reply(raises, exc, pre, body, post) ==
    [raises |-> raises, exc |-> exc, pre |-> pre, body |-> body, post |-> post]

Content(rep) == rep.pre \o rep.body \o rep.post

NoDoc == JNum(<<>>)

Out(requests, result, strategy) ==
    [requests |-> requests, result |-> result, strategy |-> strategy,
     traditional_quiz |-> NoDoc, open_ended_quiz |-> NoDoc]

\* a second request when the document holds another number of questions than asked
generate_quiz_Resamples(quiz_type, num_questions, working, rep) ==
    IF ~working
    THEN Out(<<>>,
             ErrorDoc(<<Lit("No working AI provider available. Please configure an AI provider in the sidebar.")>>),
             0)
    ELSE IF rep.raises
    THEN Out(<<Prompt(quiz_type, num_questions)>>,
             ErrorDoc(<<Lit("Error processing response: "), Lit(rep.exc)>>), 0)
    ELSE Only({IF /\ HasKey(e.result, "questions")
                  /\ Get(e.result, "questions").t = "arr"
                  /\ Len(Get(e.result, "questions").items) # num_questions
               THEN Out(<<Prompt(quiz_type, num_questions), Prompt(quiz_type, num_questions)>>,
                        e.result, e.strategy)
               ELSE Out(<<Prompt(quiz_type, num_questions)>>, e.result, e.strategy)
               : e \in {Extract(Only({strip(Content(rep))}))}})

\* lines 114-293
generate_quiz(quiz_type, num_questions, working, rep) ==
    IF ~working
    THEN Out(<<>>,
             ErrorDoc(<<Lit("No working AI provider available. Please configure an AI provider in the sidebar.")>>),
             0)
    ELSE IF rep.raises
    THEN Out(<<Prompt(quiz_type, num_questions)>>,
             ErrorDoc(<<Lit("Error processing response: "), Lit(rep.exc)>>), 0)
    ELSE Only({Out(<<Prompt(quiz_type, num_questions)>>, e.result, e.strategy)
               : e \in {Extract(Only({strip(Content(rep))}))}})

\* str(e) of a json.JSONDecodeError: what was expected and where
DecodeErrorText == "Expecting value: line 1 column 2 (char 1)"

\* open_ended_processor.py lines 109-144
generate_open_ended_questions(num_questions, rep) ==
    LET request == Request("open_ended", num_questions, 0, 0)
    IN  IF rep.raises
        THEN Out(<<request>>,
                 ErrorDoc(<<Lit("Question generation failed: "), Lit(rep.exc)>>), 0)
        ELSE Only({IF json_match = <<>>
                   THEN Out(<<request>>,
                            ErrorDoc(<<Lit("Failed to parse quiz data from response")>>), 0)
                   ELSE Only({IF quiz_data.ok
                              THEN Out(<<request>>, quiz_data.val, 4)
                              ELSE Out(<<request>>,
                                       ErrorDoc(<<Lit("JSON parsing failed: "),
                                                  Lit(DecodeErrorText)>>), 0)
                              : quiz_data \in {JsonLoads(json_match)}})
                   : json_match \in {FirstBraceSpan(strip(Content(rep)))}})

\* "error" in value: "yes", "no", or the TypeError of a value that is no container
InError(v) ==
    CASE v.t = "obj" -> IF HasKey(v, "error") THEN "yes" ELSE "no"
      [] v.t = "arr" -> IF \E i \in 1..Len(v.items) : v.items[i] = JStr(Key("error"))
                        THEN "yes" ELSE "no"
      [] v.t = "str" -> IF \E i \in 1..Len(v.s) : IsTok(v.s[i], "error")
                        THEN "yes" ELSE "no"
      [] OTHER       -> "TypeError"

\* value["questions"]
Subscript(v, name) ==
    IF HasKey(v, name) THEN [ok |-> TRUE, val |-> Get(v, name)]
    ELSE [ok |-> FALSE, val |-> NoDoc]

DigitSum(a, b) ==
    CASE a = "1" /\ b = "1" -> "2"
      [] a = "2" /\ b = "2" -> "4"
      [] OTHER              -> "3"

\* a + b
Plus(a, b) ==
    CASE a.t = "arr" /\ b.t = "arr" -> [ok |-> TRUE, val |-> JArr(a.items \o b.items)]
      [] a.t = "str" /\ b.t = "str" -> [ok |-> TRUE, val |-> JStr(a.s \o b.s)]
      [] a.t = "num" /\ b.t = "num" ->
            [ok |-> TRUE, val |-> JNum(<<Tok(DigitSum(a.s[1].ch, b.s[1].ch))>>)]
      [] OTHER -> [ok |-> FALSE, val |-> NoDoc]

MixedFailed == ErrorDoc(<<Lit("Failed to generate mixed quiz")>>)

MixedRaised(exception) ==
    ErrorDoc(<<Lit("Mixed quiz generation failed: "), Lit(exception)>>)

generate_mixed_quiz_Partial(mcq_count, tf_count, open_ended_count, working, rep1, rep2) ==
    Only({[requests |-> traditional_quiz.requests \o open_ended_quiz.requests,
           result |-> IF HasKey(open_ended_quiz.result, "questions")
                      THEN open_ended_quiz.result ELSE MixedFailed,
           strategy |-> 0,
           traditional_quiz |-> traditional_quiz.result,
           open_ended_quiz |-> open_ended_quiz.result]
          : traditional_quiz \in {generate_quiz(MIXED, mcq_count + tf_count, working, rep1)},
            open_ended_quiz \in {generate_open_ended_questions(open_ended_count, rep2)}})

\* open_ended_processor.py lines 293-322; the closed-form sub-call finds the
\* client of the module it is imported from
generate_mixed_quiz(mcq_count, tf_count, open_ended_count, working, rep1, rep2) ==
    Only({LET t == traditional_quiz.result
              o == open_ended_quiz.result
              Done(result) ==
                  [requests |-> traditional_quiz.requests \o open_ended_quiz.requests,
                   result |-> result, strategy |-> 0,
                   traditional_quiz |-> t, open_ended_quiz |-> o]
          IN  IF InError(t) = "TypeError" THEN Done(MixedRaised("TypeError"))
              ELSE IF InError(t) = "yes" THEN Done(MixedFailed)
              ELSE IF InError(o) = "TypeError" THEN Done(MixedRaised("TypeError"))
              ELSE IF InError(o) = "yes" THEN Done(MixedFailed)
              ELSE IF ~Subscript(t, "questions").ok
              THEN Done(MixedRaised(IF t.t = "obj" THEN "KeyError" ELSE "TypeError"))
              ELSE IF ~Subscript(o, "questions").ok
              THEN Done(MixedRaised(IF o.t = "obj" THEN "KeyError" ELSE "TypeError"))
              ELSE LET all_questions ==
                           Plus(Subscript(t, "questions").val, Subscript(o, "questions").val)
                   IN  IF all_questions.ok
                       THEN Done(JObj({<<Key("questions"), all_questions.val>>}))
                       ELSE Done(MixedRaised("TypeError"))
          : traditional_quiz \in {generate_quiz(MIXED, mcq_count + tf_count, working, rep1)},
            open_ended_quiz \in {generate_open_ended_questions(open_ended_count, rep2)}})

----------------------------------------------------------------------------
(* The documents and the responses a model sends *)

MaxSplit == 2       \* largest mcq_count and tf_count of a mixed quiz

Str(ch) == JStr(<<Tok(ch)>>)

Strs(chs) == [i \in 1..Len(chs) |-> Str(chs[i])]

Question(options, correct_answer) ==
    JObj({<<Key("options"), JArr(Strs(options))>>,
          <<Key("correct_answer"), Str(correct_answer)>>})

Quiz(questions) == JObj({<<Key("questions"), JArr(questions)>>})

\* the shapes the prompts ask for
MCQ == Question(<<"A", "B", "C", "D">>, "A")

TF  == Question(<<"T", "F">>, "T")

OpenQ == JObj({<<Key("question"), Str("Q")>>})

\* shapes the prompts do not ask for
ThreeOptions == Question(<<"A", "B", "C">>, "A")

WrongKey == Question(<<"A", "B", "C", "D">>, "Z")

\* JSON objects
Docs ==
    {JObj({}),
     Quiz(<<>>), Quiz(<<MCQ>>), Quiz(<<TF>>), Quiz(<<MCQ, TF>>), Quiz(<<OpenQ>>),
     Quiz(<<ThreeOptions>>), Quiz(<<WrongKey>>),
     ErrorDoc(<<Tok("x")>>),
     JObj({<<Key("questions"), JStr(<<Tok("}"), Tok(SPACE), Tok(FENCE), Tok("{")>>)>>})}

\* JSON values that are no objects
Scalars == {JNum(<<Tok("1")>>), JArr(<<JNum(<<Tok("1")>>)>>), JArr(<<>>), Str("error")}

ProseLengths == {12, DiagLimit, MaxProse}

\* texts with a brace that json.loads refuses
Broken ==
    {<<Tok("{"), Prose(3), Tok("}")>>,
     <<Tok("{"), Tok(QUOTE), Tok("questions"), Tok(QUOTE), Tok(":"), Tok("[")>>,
     <<Tok("}"), Prose(3), Tok("{")>>}

Bodies ==
    {JsonDumps(d) : d \in Docs \cup Scalars}
    \cup Broken
    \cup {<<Prose(n)>> : n \in ProseLengths}
    \cup {<<>>}

Wrap(pre, post) == [pre |-> pre, post |-> post]

Plain == {Wrap(<<>>, <<>>), Wrap(<<Tok(SPACE)>>, <<Tok(SPACE)>>)}

InProse == {Wrap(<<Prose(12), Tok(SPACE)>>, <<Tok(SPACE), Prose(6)>>)}

\* "Here you go:\n```json\n" ... "\n```\nThanks", also with backticks in the prose
TaggedFenceInProse ==
    {Wrap(<<Prose(12), Tok(SPACE), Tok(FENCE), Tok("json"), Tok(SPACE)>>,
          <<Tok(SPACE), Tok(FENCE), Tok(SPACE), Prose(6)>>),
     Wrap(<<Prose(3), Tok(FENCE), Tok(SPACE), Prose(3), Tok(SPACE), Tok(FENCE),
            Tok("json"), Tok(SPACE)>>,
          <<Tok(SPACE), Tok(FENCE), Prose(6), Tok(FENCE)>>)}

OtherFences ==
    {Wrap(<<Tok(FENCE), Tok("json"), Tok(SPACE)>>, <<Tok(SPACE), Tok(FENCE)>>),
     Wrap(<<Prose(12), Tok(SPACE), Tok(FENCE), Tok(SPACE)>>,
          <<Tok(SPACE), Tok(FENCE), Tok(SPACE), Prose(6)>>),
     \* a fence tagged with another language
     Wrap(<<Tok(FENCE), Prose(6), Tok(SPACE)>>, <<Tok(SPACE), Tok(FENCE)>>),
     \* a tagged fence around a broken document, then a fence without a tag
     Wrap(<<Tok(FENCE), Tok("json"), Tok(SPACE), Tok("{"), Prose(3), Tok("}"),
            Tok(SPACE), Tok(FENCE), Tok(SPACE), Tok(FENCE), Tok(SPACE)>>,
          <<Tok(SPACE), Tok(FENCE)>>)}

Wraps == Plain \cup InProse \cup TaggedFenceInProse \cup OtherFences

QuizExcTexts == {"Connection error."}

Raises == {Reply(TRUE, e, <<>>, <<>>, <<>>) : e \in QuizExcTexts}

QuizReplies ==
    Raises \cup {Reply(FALSE, "", w.pre, b, w.post) : w \in Wraps, b \in Bodies}

\* the replies the two sub-calls of a mixed quiz get
MixedReplies ==
    Raises
    \cup {Reply(FALSE, "", <<>>, JsonDumps(d), <<>>) :
             d \in {Quiz(<<MCQ, TF>>), Quiz(<<OpenQ>>), JObj({}), ErrorDoc(<<Tok("x")>>),
                    JNum(<<Tok("1")>>), JArr(<<>>)}}
    \cup {Reply(FALSE, "", <<>>, <<Prose(12)>>, <<>>)}

Args(quiz_type, num_questions, mcq_count, tf_count, open_ended_count, working) ==
    [quiz_type |-> quiz_type, num_questions |-> num_questions,
     mcq_count |-> mcq_count, tf_count |-> tf_count,
     open_ended_count |-> open_ended_count, client_successful |-> working]

NoArgs == Args("", 0, 0, 0, 0, FALSE)

NoOut == Out(<<>>, NoDoc, 0)

InitQuiz ==
    /\ qz_pc = "idle"
    /\ qz_fn = "none"
    /\ qz_args = NoArgs
    /\ qz_replies = <<>>
    /\ qz_out = NoOut

\* app.py:1011
GenerateQuizCall ==
    /\ qz_pc = "idle"
    /\ \E quiz_type \in QuizTypes, num_questions \in 0..MaxCount,
          working \in BOOLEAN, rep \in QuizReplies :
           /\ qz_args' = Args(quiz_type, num_questions, 0, 0, 0, working)
           /\ qz_replies' = IF working THEN <<rep>> ELSE <<>>
           /\ qz_out' = generate_quiz(quiz_type, num_questions, working, rep)
    /\ qz_fn' = "generate_quiz"
    /\ qz_pc' = "returned"
    /\ UNCHANGED <<gwVars, scVars, adVars, avVars, mnVars, fcVars>>

\* app.py:1001
GenerateOpenEndedCall ==
    /\ qz_pc = "idle"
    /\ \E num_questions \in 1..MaxCount, rep \in QuizReplies :
           /\ qz_args' = Args("Open-ended Questions", num_questions, 0, 0, 0, TRUE)
           /\ qz_replies' = <<rep>>
           /\ qz_out' = generate_open_ended_questions(num_questions, rep)
    /\ qz_fn' = "generate_open_ended_questions"
    /\ qz_pc' = "returned"
    /\ UNCHANGED <<gwVars, scVars, adVars, avVars, mnVars, fcVars>>

\* app.py:1009
GenerateMixedCall ==
    /\ qz_pc = "idle"
    /\ \E mcq_count \in 0..MaxSplit, tf_count \in 0..MaxSplit,
          open_ended_count \in 1..2, working \in BOOLEAN,
          rep1 \in MixedReplies, rep2 \in MixedReplies :
           /\ qz_args' = Args("Complete Mix (All Types)", mcq_count + tf_count + open_ended_count,
                              mcq_count, tf_count, open_ended_count, working)
           /\ qz_replies' = IF working THEN <<rep1, rep2>> ELSE <<rep2>>
           /\ qz_out' = generate_mixed_quiz(mcq_count, tf_count, open_ended_count,
                                            working, rep1, rep2)
    /\ qz_fn' = "generate_mixed_quiz"
    /\ qz_pc' = "returned"
    /\ UNCHANGED <<gwVars, scVars, adVars, avVars, mnVars, fcVars>>

\* app.py:1013-1022: the caller has taken quiz_data
QuizTaken ==
    /\ qz_pc = "returned"
    /\ qz_pc' = "idle"
    /\ qz_fn' = "none"
    /\ qz_args' = NoArgs
    /\ qz_replies' = <<>>
    /\ qz_out' = NoOut
    /\ UNCHANGED <<gwVars, scVars, adVars, avVars, mnVars, fcVars>>

----------------------------------------------------------------------------
(* app.py: one run of the script. Line 44 binds the client, then main()    *)
(* draws the sidebar (lines 1119-1130) and the page, where requests are    *)
(* made (lines 463-471, 1413).                                             *)

NoRequest == [made |-> FALSE, client |-> "none", ai_provider |-> "none"]

InitMain ==
    /\ mn_pc = "line44"
    /\ mn_start = ai_provider
    /\ selected_provider = "none"
    /\ mn_recreated = FALSE
    /\ mn_request = NoRequest

\* session_manager.py lines 351-378: the selectbox gives the provider the user has
\* chosen, and line 374 stores it in the session before it is returned
render_provider_selector ==
    /\ mn_pc = "line44"
    /\ pc = "done"
    /\ \E selected_option \in ProviderSet :
           /\ selected_provider' = selected_option
           /\ ai_provider' = selected_option
    /\ mn_pc' = "sidebar"
    /\ UNCHANGED <<mn_start, mn_recreated, mn_request>>
    /\ UNCHANGED <<tags_probe, ollama_models, ctor_raises, exc_text,
                   selected_local_model, api_keys, client, provider_name,
                   client_successful, pc, current_provider, idx, attempts, created,
                   response, ncalls>>
    /\ UNCHANGED <<scVars, adVars, avVars, qzVars, fcVars>>

\* app.py lines 1126-1130: if selected_provider != st.session_state.ai_provider, the
\* session is updated and get_working_client called again, then st.rerun()
ProviderChangedCheck ==
    /\ mn_pc = "sidebar"
    /\ IF selected_provider # ai_provider
       THEN /\ ai_provider' = selected_provider
            /\ mn_recreated' = TRUE
            /\ mn_pc' = "recreate"
            /\ pc' = "idle"
            /\ current_provider' = "none"
            /\ idx' = 0
            /\ attempts' = <<>>
            /\ created' = NoCall
       ELSE /\ mn_pc' = "body"
            /\ UNCHANGED <<ai_provider, mn_recreated, pc, current_provider, idx,
                           attempts, created>>
    /\ UNCHANGED <<mn_start, selected_provider, mn_request>>
    /\ UNCHANGED <<tags_probe, ollama_models, ctor_raises, exc_text,
                   selected_local_model, api_keys, client, provider_name,
                   client_successful, response, ncalls>>
    /\ UNCHANGED <<scVars, adVars, avVars, qzVars, fcVars>>

\* app.py lines 458-471 (display_results on every run of the results page) and lines
\* 228-240: the request goes to the global client, while the model, the temperature
\* and the processor's flags are taken from st.session_state.ai_provider
RequestInRun ==
    /\ mn_pc = "body"
    /\ client_successful
    /\ mn_request' = [made |-> TRUE, client |-> BoundProvider(client),
                      ai_provider |-> ai_provider]
    /\ mn_pc' = "requested"
    /\ UNCHANGED <<mn_start, selected_provider, mn_recreated>>
    /\ UNCHANGED <<gwVars, scVars, adVars, avVars, qzVars, fcVars>>

\* the run is over (or st.rerun() ended it): the next interaction runs app.py again
\* from line 44 with the session as it was left
RunEnds ==
    /\ \/ mn_pc \in {"body", "requested"}
       \/ mn_pc = "recreate" /\ pc = "done"
    /\ mn_pc' = "line44"
    /\ mn_start' = ai_provider
    /\ selected_provider' = "none"
    /\ mn_recreated' = FALSE
    /\ mn_request' = NoRequest
    /\ pc' = "idle"
    /\ client' = NoClient
    /\ provider_name' = <<>>
    /\ client_successful' = FALSE
    /\ current_provider' = "none"
    /\ idx' = 0
    /\ attempts' = <<>>
    /\ created' = NoCall
    /\ UNCHANGED <<tags_probe, ollama_models, ctor_raises, exc_text, ai_provider,
                   selected_local_model, api_keys, response, ncalls>>
    /\ UNCHANGED <<scVars, adVars, avVars, qzVars, fcVars>>

----------------------------------------------------------------------------
(* app.py: display_flashcards and next_card (lines 759-871)                *)

MaxCards    == 3     \* largest deck
MaxAnswered == 2     \* most self-assessments of a session

\* st.session_state.get('flashcards', []): no statement of the program stores the
\* deck under this key, so the default is what next_card sees
session_flashcards == <<>>

NoOperation == [op |-> "none", from |-> 0]

Operation(op) == [op |-> op, from |-> current_flashcard]

\* lines 772-775
FlashcardsAtRest ==
    /\ current_flashcard = 0
    /\ flashcard_answer_visible = FALSE
    /\ flashcard_stats = [k \in {"correct", "incorrect", "skipped"} |-> 0]
    /\ fc_last = NoOperation

InitFlashcards ==
    /\ total_cards \in 1..MaxCards
    /\ FlashcardsAtRest

Answered == flashcard_stats["correct"] + flashcard_stats["incorrect"] + flashcard_stats["skipped"]

\* lines 864-871
next_card ==
    /\ current_flashcard' =
           IF current_flashcard < Len(session_flashcards) - 1
           THEN current_flashcard + 1
           ELSE 0
    /\ flashcard_answer_visible' = FALSE
    /\ fc_last' = Operation("next_card")

\* lines 812-823: a self-assessment button counts and moves on
SelfAssess(stat) ==
    /\ flashcard_answer_visible
    /\ Answered < MaxAnswered
    /\ flashcard_stats' = [flashcard_stats EXCEPT ![stat] = @ + 1]
    /\ next_card
    /\ UNCHANGED total_cards
    /\ UNCHANGED <<gwVars, scVars, adVars, avVars, qzVars, mnVars>>

GotItRight == SelfAssess("correct")

GotItWrong == SelfAssess("incorrect")

Skip == SelfAssess("skipped")

\* lines 826-829
FlipBack ==
    /\ flashcard_answer_visible
    /\ flashcard_answer_visible' = FALSE
    /\ fc_last' = Operation("flip_back")
    /\ UNCHANGED <<total_cards, current_flashcard, flashcard_stats>>
    /\ UNCHANGED <<gwVars, scVars, adVars, avVars, qzVars, mnVars>>

\* lines 831-833
ShowAnswer ==
    /\ ~flashcard_answer_visible
    /\ flashcard_answer_visible' = TRUE
    /\ fc_last' = Operation("show_answer")
    /\ UNCHANGED <<total_cards, current_flashcard, flashcard_stats>>
    /\ UNCHANGED <<gwVars, scVars, adVars, avVars, qzVars, mnVars>>

\* lines 838-841
PreviousCard ==
    /\ current_flashcard > 0
    /\ current_flashcard' = current_flashcard - 1
    /\ flashcard_answer_visible' = FALSE
    /\ fc_last' = Operation("previous")
    /\ UNCHANGED <<total_cards, flashcard_stats>>
    /\ UNCHANGED <<gwVars, scVars, adVars, avVars, qzVars, mnVars>>

\* lines 843-850
ShuffleCards ==
    /\ current_flashcard' = 0
    /\ flashcard_answer_visible' = FALSE
    /\ fc_last' = Operation("shuffle")
    /\ UNCHANGED <<total_cards, flashcard_stats>>
    /\ UNCHANGED <<gwVars, scVars, adVars, avVars, qzVars, mnVars>>

\* lines 852-855
NextButton ==
    /\ current_flashcard < total_cards - 1
    /\ current_flashcard' = current_flashcard + 1
    /\ flashcard_answer_visible' = FALSE
    /\ fc_last' = Operation("next")
    /\ UNCHANGED <<total_cards, flashcard_stats>>
    /\ UNCHANGED <<gwVars, scVars, adVars, avVars, qzVars, mnVars>>

----------------------------------------------------------------------------
(* Specifications *)

Next ==
    \/ GwcTryCurrent
    \/ GwcLoop
    \/ GwcAllFailed
    \/ CreateClientCall
    \/ CompletionOnErrorClient
    \/ ScriptRerun
    \/ OllamaChanges
    \/ ConstructorsChange
    \/ set_api_key
    \/ SelectInSidebar

GatewayAtRest ==
    /\ tags_probe = "ok"
    /\ ollama_models = <<>>
    /\ ctor_raises = {}
    /\ exc_text = ""
    /\ ai_provider = LOCAL_AI
    /\ selected_local_model = MODEL_NAME
    /\ api_keys = [k \in {"openai", "google_ai"} |-> ""]
    /\ client = NoClient
    /\ provider_name = <<>>
    /\ client_successful = FALSE
    /\ pc = "idle"
    /\ current_provider = "none"
    /\ idx = 0
    /\ attempts = <<>>
    /\ created = NoCall
    /\ response = NoResponse
    /\ ncalls = 0

ScoringAtRest ==
    /\ use_local_ai = FALSE
    /\ use_google_ai = FALSE
    /\ question_data = [total_marks |-> 1, marking_scheme |-> <<>>]
    /\ user_answer = [filler |-> 0, words |-> <<>>]
    /\ payload = [total_score |-> 0, max_score |-> 10]
    /\ fp_tie_up = FALSE
    /\ ScFresh

InitGatewayOnly ==
    /\ InitGateway
    /\ InitAdapter
    /\ ScoringAtRest
    /\ InitAvailability
    /\ InitQuiz
    /\ InitMain
    /\ total_cards = 1
    /\ FlashcardsAtRest

\* the gateway: get_working_client, create_client, the error client
Spec == InitGatewayOnly /\ [][Next]_vars

InitScoringOnly ==
    /\ InitScoring
    /\ InitAdapter
    /\ GatewayAtRest
    /\ InitAvailability
    /\ InitQuiz
    /\ InitMain
    /\ total_cards = 1
    /\ FlashcardsAtRest

NextScoring ==
    \/ ScEmptyAnswer
    \/ ScCallModel
    \/ ScExtract
    \/ ScExcept
    \/ ScReturn
    \/ ScNextCall

\* one scoring call after another
SpecScoring == InitScoringOnly /\ [][NextScoring]_vars

InitAdapterOnly ==
    /\ InitAdapter
    /\ GatewayAtRest
    /\ ScoringAtRest
    /\ InitAvailability
    /\ InitQuiz
    /\ InitMain
    /\ total_cards = 1
    /\ FlashcardsAtRest

NextAdapter ==
    \/ LocalCompletion
    \/ GoogleCompletion
    \/ AdapterCallOver

\* one completion call after another on the provider adapters
SpecAdapter == InitAdapterOnly /\ [][NextAdapter]_vars

InitAvailabilityOnly ==
    /\ InitGateway
    /\ InitAdapter
    /\ ScoringAtRest
    /\ InitAvailability
    /\ InitQuiz
    /\ InitMain
    /\ total_cards = 1
    /\ FlashcardsAtRest

NextAvailability ==
    \/ CheckProviderAvailability
    \/ StatusStored
    \/ ServerChangesBetweenChecks
    \/ KeyEnteredBetweenChecks

\* one health check after another while the server and the credentials change
SpecAvailability == InitAvailabilityOnly /\ [][NextAvailability]_vars

InitQuizOnly ==
    /\ InitQuiz
    /\ InitAdapter
    /\ GatewayAtRest
    /\ ScoringAtRest
    /\ InitAvailability
    /\ InitMain
    /\ total_cards = 1
    /\ FlashcardsAtRest

NextQuiz ==
    \/ GenerateQuizCall
    \/ GenerateOpenEndedCall
    \/ GenerateMixedCall
    \/ QuizTaken

\* one quiz generation after another
SpecQuiz == InitQuizOnly /\ [][NextQuiz]_vars

InitMainOnly ==
    /\ InitGateway
    /\ InitMain
    /\ InitAdapter
    /\ ScoringAtRest
    /\ InitAvailability
    /\ InitQuiz
    /\ total_cards = 1
    /\ FlashcardsAtRest

NextMain ==
    \/ GwcTryCurrent
    \/ GwcLoop
    \/ GwcAllFailed
    \/ render_provider_selector
    \/ ProviderChangedCheck
    \/ RequestInRun
    \/ RunEnds

\* one run of app.py after another
SpecMain == InitMainOnly /\ [][NextMain]_vars

InitFlashcardsOnly ==
    /\ InitFlashcards
    /\ GatewayAtRest
    /\ InitMain
    /\ InitAdapter
    /\ ScoringAtRest
    /\ InitAvailability
    /\ InitQuiz

NextFlashcards ==
    \/ GotItRight
    \/ GotItWrong
    \/ Skip
    \/ FlipBack
    \/ ShowAnswer
    \/ PreviousCard
    \/ ShuffleCards
    \/ NextButton

\* one flashcard session
SpecFlashcards == InitFlashcardsOnly /\ [][NextFlashcards]_vars

----------------------------------------------------------------------------
(* Properties of the gateway *)

\* the world and the session let a client for provider p be created
CanCreate(p) ==
    CASE p = LOCAL_AI  -> /\ tags_probe = "ok"
                          /\ ollama_models # <<>>
                          /\ LOCAL_AI \notin ctor_raises
      [] p = GOOGLE_AI -> api_keys["google_ai"] # "" /\ GOOGLE_AI \notin ctor_raises
      [] p = OPENAI    -> api_keys["openai"] # "" /\ OPENAI \notin ctor_raises
      [] OTHER         -> FALSE

FixedOrder == <<"Local AI (Ollama)", "Google AI", "OpenAI">>

\* the preferred provider, then the others in the fixed order
ExpectedOrder(p) == <<p>> \o SelectSeq(FixedOrder, LAMBDA x : x # p)

IsPrefix(a, b) == Len(a) <= Len(b) /\ \A i \in 1..Len(a) : a[i] = b[i]

OnlyOtherAvailable(q) ==
    /\ q \in ProviderSet \ {current_provider}
    /\ ~CanCreate(current_provider)
    /\ CanCreate(q)
    /\ \A o \in ProviderSet \ {current_provider, q} : ~CanCreate(o)

\* C1: when the preferred provider cannot be created and exactly one of the
\* other two can, get_working_client returns success with a client bound to
\* that provider.
C1_FailoverToOnlyAvailable ==
    pc = "done" =>
        \A q \in ProviderSet :
            OnlyOtherAvailable(q) => client_successful /\ BoundProvider(client) = q

C1_Witness ==
    /\ pc = "done"
    /\ \E q \in ProviderSet : OnlyOtherAvailable(q) /\ BoundProvider(client) = q
    /\ client_successful

\* C3: when no provider can be created, get_working_client returns
\* success=False with the error client of the last provider of the fallback
\* order that was attempted, and that client's message is not empty.
C3_AllFailedLastErrorClient ==
    (pc = "done" /\ \A p \in ProviderSet : ~CanCreate(p)) =>
        /\ ~client_successful
        /\ client.kind = "MockClient"
        /\ created.provider = ExpectedOrder(current_provider)[3]
        /\ client = created.result.client
        /\ ~IsEmptyText(client.error_message)

C3_Witness ==
    /\ pc = "done"
    /\ \A p \in ProviderSet : ~CanCreate(p)
    /\ Len(attempts) = 3
    /\ client.kind = "MockClient"
    /\ ~client_successful

\* C4: providers are attempted one after another, the preferred one first,
\* then the others in the order Local AI (Ollama), Google AI, OpenAI; every
\* attempt but the last one failed, no provider is attempted twice, and the
\* call ends without success only after all three were attempted.
C4_SequentialFixedOrder ==
    pc \in {"loop", "done"} =>
        /\ IsPrefix(attempts, ExpectedOrder(current_provider))
        /\ NoDup(attempts)
        /\ \A i \in 1..(Len(attempts) - 1) : ~CanCreate(attempts[i])
        /\ (pc = "loop" => ~CanCreate(attempts[Len(attempts)]))
        /\ (pc = "done" /\ client_successful => CanCreate(attempts[Len(attempts)]))
        /\ (pc = "done" /\ ~client_successful => attempts = ExpectedOrder(current_provider))

C4_Witness ==
    /\ pc = "done"
    /\ client_successful
    /\ current_provider = GOOGLE_AI
    /\ attempts = <<GOOGLE_AI, LOCAL_AI, OPENAI>>

\* C5: during and after get_working_client the session's ai_provider differs
\* from the provider the call started with only when a failover succeeded,
\* and then it is the provider of the returned client.
C5_ProviderSwitchOnlyOnFailover ==
    pc \in {"loop", "done"} =>
        /\ (ai_provider # current_provider =>
                /\ pc = "done"
                /\ client_successful
                /\ Len(attempts) > 1
                /\ BoundProvider(client) = ai_provider)
        /\ (pc = "done" /\ client_successful /\ Len(attempts) > 1 =>
                ai_provider = BoundProvider(client) /\ ai_provider # current_provider)

C5_Witness ==
    /\ pc = "done"
    /\ client_successful
    /\ Len(attempts) > 1
    /\ ai_provider # current_provider
    /\ BoundProvider(client) = ai_provider

\* C6: create_client never raises, whatever the provider name; whenever the
\* client cannot be created (server down, no models, no credential, the
\* constructor raises, unknown name) it returns an error client and
\* success=False.
C6_CreateClientNeverRaises ==
    created.provider # "none" =>
        /\ ~created.result.raised
        /\ (~CanCreate(created.provider) =>
                ~created.result.success /\ created.result.client.kind = "MockClient")
        /\ (~created.result.success => created.result.client.kind = "MockClient")

C6_Witness ==
    /\ created.provider = GOOGLE_AI
    /\ GOOGLE_AI \in ctor_raises
    /\ api_keys["google_ai"] # ""
    /\ ~created.result.raised
    /\ created.result.client = MockClient(<<"Google AI error: ", exc_text>>)

\* C7: a completion call on an error client, made as
\* client.chat.completions.create(...), returns without raising a response
\* whose content embeds the client's error message, at every call.
C7_ErrorClientAnswers ==
    ncalls > 0 =>
        /\ ~response.raised
        /\ Embeds(response.content, client.error_message)

\* C8: after a successful creation of a Local client the session's selected
\* model is in the list enumerated during the creation and is the model the
\* client is bound to; a selection that was not in the list has been
\* replaced by the first enumerated model, one that was is kept.
C8_SelectedModelNeverDangling ==
    (created.provider = LOCAL_AI /\ created.result.success) =>
        /\ selected_local_model \in Range(ollama_models)
        /\ created.result.client.model = selected_local_model
        /\ (created.before \notin Range(ollama_models) =>
                selected_local_model = ollama_models[1])
        /\ (created.before \in Range(ollama_models) =>
                selected_local_model = created.before)

C8_Witness ==
    /\ created.provider = LOCAL_AI
    /\ created.result.success
    /\ created.before \notin Range(ollama_models)
    /\ selected_local_model = ollama_models[1]
    /\ created.result.client.model = ollama_models[1]

----------------------------------------------------------------------------
(* Properties of the scorer *)

\* the completion call of this scoring call raised, or its text holds no document that parses
ModelPathFailed ==
    /\ n_completions > 0
    /\ reply.raises \/ ~IsJson(BraceSpan(reply.content))

\* C2: for every provider kind, when the completion call raises or the
\* reply holds no parseable document, score_open_ended_answer does not raise
\* and returns the heuristic scorer's result for the same question and answer.
C2_FailureFallsBackToHeuristic ==
    (sc_pc \in {"returned", "raised"} /\ ModelPathFailed) =>
        /\ sc_pc = "returned"
        /\ scoring_result = _fallback_scoring(question_data, user_answer)

\* C10: every result score_open_ended_answer returns has
\* 0 <= total_score <= max_score.
C10_ScoreWithinBounds ==
    sc_pc = "returned" =>
        /\ {"total_score", "max_score"} \subseteq DOMAIN scoring_result
        /\ 0 <= scoring_result.total_score
        /\ scoring_result.total_score <= scoring_result.max_score

----------------------------------------------------------------------------
(* Properties of the adapters *)

\* the network failed: timeout, status other than 200, malformed body, API error, empty response
TransportFailed ==
    \/ ad_adapter = "LocalAIClient" /\ ad_transport \in {"timeout", "http_error", "malformed"}
    \/ ad_adapter = "GoogleAIClient" /\ ad_transport \in {"raises", "empty"}

EmptyLocalPayload ==
    ad_adapter = "LocalAIClient" /\ ad_transport = "no_response_field"

C11_EmptyAnswerZeroNoCall ==
    (sc_pc \in {"returned", "raised"} /\ IsBlank(user_answer)) =>
        /\ sc_pc = "returned"
        /\ scoring_result.total_score = 0
        /\ scoring_result.percentage = 0
        /\ scoring_result.max_score = 10 * question_data.total_marks
        /\ scoring_result.feedback = "No answer provided."
        /\ n_completions = 0

C11_Witness ==
    /\ sc_pc = "returned"
    /\ IsBlank(user_answer)
    /\ sc_path = "empty"
    /\ scoring_result.total_score = 0
    /\ question_data.total_marks = MaxMarks

----------------------------------------------------------------------------
(* Properties of the health check *)

\* C19: check_provider_availability never raises, for the three providers
\* and for an unknown name, whatever the server answers and whatever keys
\* the session holds; it returns a pair of a flag and a message.
C19_AvailabilityNeverRaises ==
    av_pc = "checked" =>
        /\ ~av_result.raised
        /\ av_result.available \in BOOLEAN
        /\ ~IsEmptyText(av_result.message)

C19_Witness ==
    /\ av_pc = "checked"
    /\ av_provider = LOCAL_AI
    /\ tags_probe = "conn_error"
    /\ ~av_result.raised
    /\ av_result.message = <<"Server not running">>

\* C20: Local is reported available exactly when the liveness probe succeeds
\* and the model list is not empty; a cloud provider exactly when the key
\* held for it is a non-empty string, and no network call is made for it.
C20_AvailableIff ==
    av_pc = "checked" =>
        /\ av_provider = LOCAL_AI =>
               (av_result.available <=> (tags_probe = "ok" /\ ollama_models # <<>>))
        /\ av_provider = GOOGLE_AI =>
               /\ av_result.available <=> api_keys["google_ai"] # ""
               /\ av_result.network = <<>>
        /\ av_provider = OPENAI =>
               /\ av_result.available <=> api_keys["openai"] # ""
               /\ av_result.network = <<>>

C20_Witness ==
    /\ av_pc = "checked"
    /\ av_provider = GOOGLE_AI
    /\ api_keys["google_ai"] # ""
    /\ api_keys["openai"] = ""
    /\ av_result.available
    /\ av_result.network = <<>>

----------------------------------------------------------------------------
(* Properties of quiz generation *)

\* generate_quiz returned after a completion call that gave a text
QuizFromText ==
    /\ qz_pc = "returned"
    /\ qz_fn = "generate_quiz"
    /\ qz_replies # <<>>
    /\ ~qz_replies[1].raises

BraceFree(text) == \A i \in 1..Len(text) : text[i].ch \notin {"{", "}"}

\* the text, cut to the first 1000 characters when it is longer
Truncated(text) == IF Chars(text) > DiagLimit THEN Take(text, DiagLimit) ELSE text

\* the value is an error document whose message holds the (cut) text
CarriesText(v, text) ==
    /\ HasKey(v, "error")
    /\ Get(v, "error").t = "str"
    /\ Embeds(Get(v, "error").s, Truncated(text))

\* C12: for every JSON object D, when the response text is the serialization
\* of D, generate_quiz returns a document equal to D.
C12_ExtractionRoundTrip ==
    (QuizFromText /\ qz_replies[1].pre = <<>> /\ qz_replies[1].post = <<>>) =>
        \A d \in Docs : qz_replies[1].body = JsonDumps(d) => qz_out.result = d

C12_Witness ==
    /\ QuizFromText
    /\ qz_replies[1].pre = <<>>
    /\ qz_replies[1].post = <<>>
    /\ qz_replies[1].body = JsonDumps(Quiz(<<MCQ, TF>>))
    /\ qz_out.result = Quiz(<<MCQ, TF>>)
    /\ qz_out.strategy = 1

\* C13: a response text without any brace gives an error document whose
\* message holds the text, cut to its first 1000 characters when it is longer.
C13_NoBraceGivesErrorDocument ==
    (QuizFromText /\ BraceFree(Content(qz_replies[1]))) =>
        CarriesText(qz_out.result, strip(Content(qz_replies[1])))

\* C14: a JSON object D inside a fence tagged json, with brace-free prose
\* before and after the fence, is returned as D.
C14_FencedDocumentExtracted ==
    (QuizFromText /\ Wrap(qz_replies[1].pre, qz_replies[1].post) \in TaggedFenceInProse) =>
        \A d \in Docs : qz_replies[1].body = JsonDumps(d) => qz_out.result = d

C14_Witness ==
    /\ QuizFromText
    /\ Wrap(qz_replies[1].pre, qz_replies[1].post) \in TaggedFenceInProse
    /\ BraceFree(qz_replies[1].pre)
    /\ BraceFree(qz_replies[1].post)
    /\ qz_replies[1].body = JsonDumps(Quiz(<<MCQ>>))
    /\ qz_out.result = Quiz(<<MCQ>>)
    /\ qz_out.strategy = 2

\* no document can be recovered: there is no brace span, or the span does not parse
NothingRecovered(text) ==
    \/ FirstBraceSpan(text) = <<>>
    \/ ~JsonLoads(FirstBraceSpan(text)).ok

\* C15: when generate_open_ended_questions recovers no document from the
\* response, the error value it returns holds a cut copy of the raw response.
C15_OpenEndedErrorCarriesText ==
    (/\ qz_pc = "returned"
     /\ qz_fn = "generate_open_ended_questions"
     /\ ~qz_replies[1].raises
     /\ NothingRecovered(strip(Content(qz_replies[1])))) =>
        CarriesText(qz_out.result, strip(Content(qz_replies[1])))

\* C16: for a Mixed quiz of n >= 0 questions the prompt asks for floor(n/2)
\* multiple-choice and n - floor(n/2) true/false questions: the parts sum to
\* n and true/false gets the extra one when n is odd.
C16_MixedSplitFloorHalf ==
    (/\ qz_pc = "returned"
     /\ qz_fn = "generate_quiz"
     /\ qz_args.quiz_type = MIXED
     /\ qz_args.client_successful) =>
        /\ Len(qz_out.requests) = 1
        /\ LET asked == qz_out.requests[1]
               n == qz_args.num_questions
           IN  /\ asked.exactly = n
               /\ 2 * asked.multiple_choice <= n
               /\ n < 2 * asked.multiple_choice + 2
               /\ asked.multiple_choice + asked.true_false = n
               /\ asked.true_false - asked.multiple_choice = n % 2

C16_Witness ==
    /\ qz_pc = "returned"
    /\ qz_fn = "generate_quiz"
    /\ qz_args.quiz_type = MIXED
    /\ qz_args.num_questions = 5
    /\ Len(qz_out.requests) = 1
    /\ qz_out.requests[1].multiple_choice = 2
    /\ qz_out.requests[1].true_false = 3

MixedReturned == qz_pc = "returned" /\ qz_fn = "generate_mixed_quiz"

\* a sub-call returned an error value
SubError(v) == HasKey(v, "error")

HasQuestionList(v) == HasKey(v, "questions") /\ Get(v, "questions").t = "arr"

\* an error that holds no questions
BareError(v) == HasKey(v, "error") /\ ~HasKey(v, "questions")

Concatenated(t, o) == Quiz(Get(t, "questions").items \o Get(o, "questions").items)

WellShaped(q) ==
    /\ HasKey(q, "options")
    /\ Get(q, "options").t = "arr"
    /\ Len(Get(q, "options").items) \in {2, 4}
    /\ HasKey(q, "correct_answer")
    /\ \E i \in 1..Len(Get(q, "options").items) :
           Get(q, "options").items[i] = Get(q, "correct_answer")

\* C18: every question of a quiz that generate_quiz returns as a success
\* has 2 or 4 options and a correct answer that is one of them; a response
\* of another shape comes back as an error.
C18_ClosedFormShape ==
    (QuizFromText /\ ~HasKey(qz_out.result, "error")) =>
        /\ HasQuestionList(qz_out.result)
        /\ \A i \in 1..Len(Get(qz_out.result, "questions").items) :
               WellShaped(Get(qz_out.result, "questions").items[i])

----------------------------------------------------------------------------
(* C21: GoogleAIClient.chat_completions_create, the contents sent          *)

\* the content of the last user message of a request, "" when there is none
LastUserContent(messages) ==
    LET users == {i \in 1..Len(messages) : messages[i].role = "user"}
    IN  IF users = {} THEN ""
        ELSE messages[CHOOSE i \in users : \A k \in users : k <= i].content

\* C21: whenever the Google AI adapter has handed contents to generate_content, the
\* contents are exactly the content of the last user message of the request. The code
\* stops at the first user message (break at line 23), so a request with two user
\* messages of different content sends the first one.
C21_SendsLastUserContent ==
    (ad_adapter = "GoogleAIClient" /\ ad_sent # "")
        => ad_sent = LastUserContent(ad_messages)

----------------------------------------------------------------------------
(* C22: the order of the extraction strategies of generate_quiz            *)

\* what each strategy would give for the trimmed text, in the claimed order
Attempts(text) ==
    <<JsonLoads(text),
      LoadSpan(FencedSpan(text, TRUE)),
      LoadSpan(FencedSpan(text, FALSE)),
      LoadSpan(FirstBraceSpan(text))>>

\* C22: the value generate_quiz returns for a response text is the parse of the
\* first of the four strategies (whole trimmed text, fenced block with optional json
\* tag, fenced block without tag, first "{" to last "}") that parses: every earlier
\* strategy failed, and the error document is returned only when all four failed.
C22_FirstParsingStrategyWins ==
    QuizFromText =>
        \A text \in {strip(Content(qz_replies[1]))} :
        \A tried \in {Attempts(text)} :
            /\ qz_out.strategy \in 0..4
            /\ qz_out.strategy = 0 =>
                   /\ \A k \in 1..4 : ~tried[k].ok
                   /\ qz_out.result = ParseErrorDoc(text)
            /\ qz_out.strategy # 0 =>
                   /\ tried[qz_out.strategy].ok
                   /\ qz_out.result = tried[qz_out.strategy].val
                   /\ \A k \in 1..(qz_out.strategy - 1) : ~tried[k].ok

\* the tagged fence holds a broken document, the untagged fence after it a good one:
\* the third strategy gives the result, and the fourth would have parsed nothing
C22_Witness ==
    /\ QuizFromText
    /\ qz_out.strategy = 3
    /\ qz_out.result = Quiz(<<MCQ, TF>>)
    /\ ~JsonLoads(strip(Content(qz_replies[1]))).ok
    /\ ~LoadSpan(FencedSpan(strip(Content(qz_replies[1])), TRUE)).ok

\* the fourth strategy gives the result: a document inside prose
C22_BraceSpanReached ==
    /\ QuizFromText
    /\ qz_out.strategy = 4
    /\ qz_out.result = Quiz(<<MCQ, TF>>)

----------------------------------------------------------------------------
(* C23: the course of one scoring call                                     *)

\* at most one completion request and at most one heuristic computation in a call
OneRequestOneHeuristic ==
    /\ n_completions <= 1
    /\ n_heuristic <= 1
    /\ n_heuristic = 1 => sc_path = "heuristic"

\* C23: a scoring call of a non-empty answer makes at most one completion request and
\* computes the heuristic at most once, and it ends in one of the two outcomes Scored
\* (the model's document) or Heuristic-scored: a failure of the model path always
\* reaches the heuristic. The except handler of lines 258-260 fails before it calls
\* the heuristic when the processor is not the Local one, and the call ends in an
\* exception, which is neither outcome.
C23_EndsScoredOrHeuristic ==
    /\ OneRequestOneHeuristic
    /\ (sc_pc \in {"returned", "raised"} /\ ~IsBlank(user_answer)) =>
           /\ sc_pc = "returned"
           /\ sc_path \in {"model", "heuristic"}
           /\ n_completions = 1
           /\ sc_path = "model" => n_heuristic = 0

----------------------------------------------------------------------------
(* C24..C26: the heuristic scorer                                          *)

\* the heuristic scorer produced the result of this call
HeuristicScored == sc_pc = "returned" /\ sc_path = "heuristic"

\* the rubric keywords over all criteria, one pair for each occurrence in the scheme
RubricKeywords(q) ==
    {ck \in (1..Len(q.marking_scheme)) \X (1..3) :
        ck[2] <= Len(q.marking_scheme[ck[1]].keywords)}

\* those of them that occur in the answer when case is ignored
FoundKeywords(q, answer) ==
    {ck \in RubricKeywords(q) :
        \E i \in 1..Len(answer.words) :
            lower(answer.words[i]) = lower(q.marking_scheme[ck[1]].keywords[ck[2]])}

\* C24: the heuristic total is (0.3 * min(1, wordCount/50) + 0.7 * found/max(total,1)) *
\* totalMarks rounded to one decimal, total being the number of rubric keywords and found
\* the number of them that occur case-insensitively in the answer; it lies between 0 and
\* totalMarks. In tenths of a mark the exact value is
\* totalMarks * (3 * min(wordCount, 50) * K + 350 * found) / (50 * K), K = max(total, 1),
\* and the total is within half a tenth of it.
C24_HeuristicFormula ==
    HeuristicScored =>
        LET total == Cardinality(RubricKeywords(question_data))
            found == Cardinality(FoundKeywords(question_data, user_answer))
            K == IF total >= 1 THEN total ELSE 1
            wc == IF word_count(user_answer) <= 50 THEN word_count(user_answer) ELSE 50
            exact == question_data.total_marks * (3 * wc * K + 350 * found)
            t == scoring_result.total_score
        IN  /\ 2 * (t * 50 * K - exact) <= 50 * K
            /\ 2 * (exact - t * 50 * K) <= 50 * K
            /\ 0 <= t
            /\ t <= 10 * question_data.total_marks

\* a keyword of the rubric occurs in the answer in another case
C24_Witness ==
    /\ HeuristicScored
    /\ user_answer = [filler |-> 9, words |-> <<"Hydrogen">>]
    /\ question_data.total_marks = 4
    /\ Len(question_data.marking_scheme) = 1
    /\ scoring_result.total_score = 12

\* the rubric with total marks 4 and the keywords H2O, hydrogen, oxygen
WaterRubric == [total_marks |-> 4,
                marking_scheme |-> <<Criterion(1, <<"H2O", "hydrogen", "oxygen">>)>>]

\* an answer of at least 50 words that holds every keyword of the rubric
Rich(q, answer) ==
    /\ word_count(answer) >= 50
    /\ FoundKeywords(q, answer) = RubricKeywords(q)

\* an answer of fewer than 10 words that holds no keyword of the rubric
Poor(q, answer) ==
    /\ word_count(answer) < 10
    /\ FoundKeywords(q, answer) = {}

\* C25: under the rubric with total marks 4 and keywords H2O, hydrogen, oxygen, the
\* heuristic total of an answer with all three keywords and at least 50 words is
\* strictly greater than the heuristic total of every answer with none of the keywords
\* and fewer than 10 words, and both totals are at most 4.
C25_HeuristicOrdering ==
    (HeuristicScored /\ question_data = WaterRubric) =>
        /\ scoring_result.total_score <= 40
        /\ Rich(WaterRubric, user_answer) =>
               \A b \in Answers :
                   Poor(WaterRubric, b) =>
                       /\ scoring_result.total_score >
                              _fallback_scoring(WaterRubric, b).total_score
                       /\ _fallback_scoring(WaterRubric, b).total_score <= 40
        /\ Poor(WaterRubric, user_answer) =>
               \A a \in Answers :
                   Rich(WaterRubric, a) =>
                       /\ scoring_result.total_score <
                              _fallback_scoring(WaterRubric, a).total_score
                       /\ _fallback_scoring(WaterRubric, a).total_score <= 40

\* 47 other words and the three keywords: exactly 50 words, scored 4.0, while an
\* answer of 9 other words would get 0.2
C25_Witness ==
    /\ HeuristicScored
    /\ question_data = WaterRubric
    /\ user_answer = [filler |-> 47, words |-> <<"H2O", "Hydrogen", "oxygen">>]
    /\ scoring_result.total_score = 40
    /\ Poor(WaterRubric, [filler |-> 9, words |-> <<>>])
    /\ _fallback_scoring(WaterRubric, [filler |-> 9, words |-> <<>>]).total_score = 2

\* the sentence of the feedback that discloses that the model did not score
Disclosure == "Answer evaluated using basic scoring. AI detailed scoring unavailable."

\* C26: every result of the heuristic scorer has an empty list of per-criterion
\* scores, holds the totals (total score, maximum score, percentage), and its overall
\* feedback states that AI scoring was unavailable.
C26_HeuristicDisclosed ==
    HeuristicScored =>
        /\ scoring_result.criterion_scores = <<>>
        /\ scoring_result.overall_feedback = Disclosure
        /\ {"total_score", "max_score", "percentage"} \subseteq DOMAIN scoring_result
        /\ scoring_result.max_score = 10 * question_data.total_marks

\* a rubric of two criteria, scored by the heuristic after a reply without a document
C26_Witness ==
    /\ HeuristicScored
    /\ Len(question_data.marking_scheme) = 2
    /\ ~reply.raises
    /\ scoring_result.criterion_scores = <<>>
    /\ scoring_result.total_score > 0

----------------------------------------------------------------------------
(* C27: the completion requests of one generate_quiz call                  *)

\* the number of questions of a document, -1 when it holds no question list
QuestionCount(v) ==
    IF HasKey(v, "questions") /\ Get(v, "questions").t = "arr"
    THEN Len(Get(v, "questions").items)
    ELSE -1

\* C27: a generate_quiz call with a working client makes exactly one completion
\* request, and a call without one makes none and returns an error value; when the
\* model's document holds fewer or more questions than were asked for, there is no
\* second request and the document is returned as it was parsed.
C27_OneRequestNoResample ==
    (qz_pc = "returned" /\ qz_fn = "generate_quiz") =>
        /\ qz_args.client_successful => Len(qz_out.requests) = 1
        /\ ~qz_args.client_successful =>
               /\ qz_out.requests = <<>>
               /\ HasKey(qz_out.result, "error")
        /\ (QuizFromText /\ qz_replies[1].pre = <<>> /\ qz_replies[1].post = <<>>) =>
               \A d \in Docs :
                   (/\ qz_replies[1].body = JsonDumps(d)
                    /\ QuestionCount(d) # qz_args.num_questions) =>
                       /\ qz_out.result = d
                       /\ Len(qz_out.requests) = 1

\* five questions asked, a document of two questions returned after one request
C27_Witness ==
    /\ QuizFromText
    /\ qz_args.num_questions = 5
    /\ qz_out.result = Quiz(<<MCQ, TF>>)
    /\ QuestionCount(qz_out.result) = 2
    /\ Len(qz_out.requests) = 1

\* no working client: no request, an error value
C27_NoClientNoRequest ==
    /\ qz_pc = "returned"
    /\ qz_fn = "generate_quiz"
    /\ ~qz_args.client_successful
    /\ qz_out.requests = <<>>
    /\ HasKey(qz_out.result, "error")

----------------------------------------------------------------------------
(* C28: the closed-form sub-request of generate_mixed_quiz                 *)

\* the closed-form sub-request of a returned mixed call asks for as many questions
\* as mcq_count and tf_count together
ClosedFormAsksSum ==
    (MixedReturned /\ qz_args.client_successful) =>
        /\ qz_out.requests[1].kind = "closed"
        /\ qz_out.requests[1].exactly = qz_args.mcq_count + qz_args.tf_count

\* C28: for every pair of counts the closed-form sub-request of generate_mixed_quiz
\* asks for exactly mcq_count multiple-choice and exactly tf_count true/false
\* questions. The sub-call gets only the sum (line 307) and generate_quiz splits it
\* again by halves (app.py lines 153-154), so the two counts of the caller are lost.
C28_SubRequestKeepsCounts ==
    (MixedReturned /\ qz_args.client_successful) =>
        /\ qz_out.requests[1].multiple_choice = qz_args.mcq_count
        /\ qz_out.requests[1].true_false = qz_args.tf_count

----------------------------------------------------------------------------
(* C29: the provider switch of main                                        *)

\* the sidebar of this run has been drawn and the comparison of line 1126 made
SidebarDone == mn_pc \in {"recreate", "body", "requested"}

\* the comparison of line 1126 never finds a difference: render_provider_selector has
\* already stored its choice, so main never calls get_working_client
MainNeverRecreates == ~mn_recreated /\ mn_pc # "recreate"

\* C29: in a run where the provider chosen in the selector differs from the session's
\* provider at the start of the run, main re-creates the client through
\* get_working_client in that run; and in every run a generation or scoring request
\* goes to a client of the provider that st.session_state.ai_provider names.
C29_ClientFollowsSelector ==
    /\ (SidebarDone /\ selected_provider # mn_start) => mn_recreated
    /\ mn_request.made => mn_request.client = mn_request.ai_provider

----------------------------------------------------------------------------
(* C30: next_card                                                          *)

\* the index names a card of the deck
IndexInRange == current_flashcard \in 0..(total_cards - 1)

\* C30: next_card moves from a card i that is not the last one to card i + 1 and from
\* the last card to card 0, it hides the answer, and the index stays within
\* 0..number_of_cards-1. next_card measures the deck by
\* st.session_state.get('flashcards', []), which is always empty, so it goes to card 0
\* from every card.
C30_NextCardAdvances ==
    /\ IndexInRange
    /\ fc_last.op = "next_card" =>
           /\ current_flashcard =
                  IF fc_last.from < total_cards - 1 THEN fc_last.from + 1 ELSE 0
           /\ ~flashcard_answer_visible

====
